---- MODULE Spec2Model ----
(***************************************************************************)
(* A model of the generation orchestration engine of                       *)
(* src/app/services/grok_client.py: the image stream driver                *)
(* (GrokImagineClient._do_generate, with _save_final_images), the video    *)
(* driver (_do_generate_video), the retry/failover orchestrators           *)
(* (generate, generate_video) and the incremental adapter                  *)
(* (generate_stream).                                                      *)
(*                                                                         *)
(* The specifications share the module's variables:                        *)
(*   SpecClassify   one inbound image event through the classification of  *)
(*                  _do_generate (lines 814-844), as a pure function;      *)
(*   SpecSave       _save_final_images on an arbitrary unit map;           *)
(*   SpecImage      one attempt of _do_generate, event by event, with a    *)
(*                  clock in whole seconds;                                *)
(*   SpecOrch       one call of generate or generate_video, against a      *)
(*                  credential pool that honours its contract;             *)
(*   SpecOrchFair   the same, every await of the call returning;           *)
(*   SpecOrchFault  the same call against a pool whose operations may      *)
(*                  raise;                                                 *)
(*   SpecStream     one call of generate_stream: its task and consumer;    *)
(*   SpecStreamFair the same, a cancelled task being resumed;              *)
(*   SpecStreamPull the same, with a consumer that keeps pulling;          *)
(*   SpecVideo      one attempt of _do_generate_video, in both of its      *)
(*                  implementations;                                       *)
(*   SpecKey        require_api_key of src/app/core/security.py, as a pure *)
(*                  function of the configured key and the credentials;    *)
(*   SpecAttempts   two attempts of _do_generate on the one client object, *)
(*                  their events interleaved.                              *)
(* The variables a specification does not use keep their idle values.      *)
(***************************************************************************)
EXTENDS Integers, Sequences, FiniteSets, TLC

VARIABLES
    \* ---- pure-function specifications
    arg_url,                \* the url of the event given to the classification
    arg_blob,               \* its blob
    arg_images,             \* progress.images given to _save_final_images
    arg_n,                  \* n given to _save_final_images
    ret,                    \* <<>> before the call, <<value>> after it
    \* ---- one attempt of _do_generate
    n,                      \* target count
    pc_gen,                 \* "idle" | "connect" | "loop" | "done" | "raised"
    now,                    \* time.time(), whole seconds
    start_time,
    last_activity,
    medium_received_time,   \* None_time or a time
    progress_images,        \* progress.images: units in insertion order
    progress_completed,     \* progress.completed
    error_info,             \* <<>> (None) or <<[error_code, error]>>
    result_gen,             \* <<>> or <<the dict returned>>
    frames,                 \* frames received so far in the attempt
    idle_timeouts,          \* read timeouts in a row since the last frame received
    not_stored,             \* image events left unstored by line 848 so far
    callback_completed,     \* <<>> or <<progress.completed as the last callback was given it>>
    \* ---- one call of generate / generate_video
    flow,                   \* "image" | "video" | "idle"
    sso,                    \* the caller's pinned credential, or None
    max_retries,
    pool_has_usage,         \* hasattr(sso_manager, 'record_usage')
    pc,                     \* "idle" | "loop" | "age" | "try" | "result" | "except" | "returned" | "raised"
    attempt,                \* the for-loop's index
    current_sso,
    last_error,             \* <<>> (None) or <<dict>>
    blocked_retries,
    attempt_result,         \* <<>> or <<dict the driver returned>>
    attempt_exc,            \* <<>> or <<str(e) of the exception in flight>>
    returned,               \* <<>> or <<dict returned to the caller>>
    hist,                   \* the driver event that ended each attempt started
    pool_log,               \* pool operations called since the current attempt began
    acquired,               \* calls of get_next_sso so far in the call
    \* ---- one call of generate_stream
    task,                   \* "idle" | "running" | "finished" | "raised" | "cancelled"
    cancel_requested,       \* task.cancel() was called and not yet delivered
    queue,                  \* the asyncio.Queue: items put and not yet got
    done,                   \* the asyncio.Event
    consumer,               \* "idle" | "waiting" | "yielded" | "ended" | "closed"
    item,                   \* <<>> or <<the item last got from the queue>>
    yielded,                \* the items yielded to the consumer, in order
    enqueued,               \* every item put on the queue, in order
    task_pool_ops,          \* pool operations the task has performed
    polls,                  \* queue.get timeouts of the consumer so far, modulo MaxPolls + 1
    \* ---- one attempt of the video driver (_do_generate_video)
    pc_video,               \* "idle" | "post" | "chat" | "stream" | "once_returned" |
                            \* "curl_raised" | "done" | "raised"
    curl_available,         \* CURL_CFFI_AVAILABLE
    impl,                   \* the implementation running: "curl" | "aiohttp"
    profile,                \* index into impersonates of the curl attempt running
    post_status,            \* status of the last media post response, 0 before it
    chat_status,            \* status of the last app-chat response, 0 before it
    stream_log,             \* the lines the current chat stream has delivered
    unterminated,           \* the stream ended with its last line not newline-terminated
    preview_image_urls,
    final_video_url,        \* "" or the videoUrl of the qualifying record
    final_thumbnail_url,
    resolution,             \* the resolution asked for: "480p" | "720p"
    jobs_created,           \* media posts created so far in this attempt (answered with an id)
    result_video,           \* <<>> or <<the dict returned>>
    \* ---- require_api_key
    api_key,                \* settings.API_KEY
    credentials,            \* <<>> for None, or <<[scheme, credentials]>>
    key_ret,                \* <<>> before the call, <<what the call gave>> after it
    \* ---- attempts of _do_generate that run on the one client object
    att_state,              \* for each attempt, the locals of its call of _do_generate
    att_ctl,                \* for each attempt, where it stands and what it has handled
    clock                   \* time.time(), whole seconds

pure_vars == <<arg_url, arg_blob, arg_images, arg_n, ret>>
gen_vars  == <<n, pc_gen, now, start_time, last_activity, medium_received_time,
               progress_images, progress_completed, error_info, result_gen, frames,
               idle_timeouts, not_stored, callback_completed>>
orch_vars == <<flow, sso, max_retries, pool_has_usage, pc, attempt, current_sso, last_error,
               blocked_retries, attempt_result, attempt_exc, returned, hist, pool_log,
               acquired>>
stream_vars == <<task, cancel_requested, queue, done, consumer, item, yielded, enqueued,
                 task_pool_ops, polls>>
video_vars == <<pc_video, curl_available, impl, profile, post_status, chat_status, stream_log,
                unterminated, preview_image_urls, final_video_url, final_thumbnail_url,
                resolution, jobs_created, result_video>>
key_vars == <<api_key, credentials, key_ret>>
att_vars == <<att_state, att_ctl, clock>>
vars == <<pure_vars, gen_vars, orch_vars, stream_vars, video_vars, key_vars, att_vars>>

----------------------------------------------------------------------------
(* Literals of the code *)

FINAL_MIN_SIZE == 100000
MEDIUM_MIN_SIZE == 30000
RECEIVE_TIMEOUT == 5
BLOCKED_AFTER_MESSAGE == 15
BLOCKED_AFTER_TIMEOUT == 10
IDLE_COMPLETE_AFTER == 10
max_blocked_retries == 3

(* Bounds of the model *)

GENERATION_TIMEOUT == 18    \* settings.GENERATION_TIMEOUT, in seconds
MaxFrames == 3               \* most frames received in one attempt
MaxN == 2                   \* largest target count of an attempt
MaxUnits == 6               \* most units handed to _save_final_images
MaxTarget == 4              \* largest n handed to _save_final_images
MaxRetries == 5             \* largest max_retries of a call
MaxProgress == 3            \* most progress items the task of generate_stream enqueues
MaxPoolOps == 2             \* most pool operations that task performs
MaxPolls == 2               \* the consumer's queue.get timeouts are counted modulo MaxPolls + 1
MaxLines == 4               \* most lines one chat stream delivers

None == "None"
None_time == -1
None_id == <<>>           \* no image id: the pattern did not match

----------------------------------------------------------------------------
(* Values: urls, blobs, units, result dicts *)

\* A url is /<dir>/<name>.<ext><tail>; a name is a sequence of characters.
HexChars == {"a", "b", "c", "d", "e", "f", "0", "1", "2", "3", "4", "5", "6", "7", "8", "9", "-"}
Url(dir, name, ext, tail) == [dir |-> dir, name |-> name, ext |-> ext, tail |-> tail]
EmptyUrl == Url("", <<>>, "", "")

\* A blob is a base64 string: its length, and whether base64.b64decode accepts it.
Blob(len, ok) == [len |-> len, decodes |-> ok]

\* re.compile(r'/images/([a-f0-9-]+)\.(png|jpg)').search(url)
_extract_image_id(url) ==
    IF /\ url.dir = "images"
       /\ Len(url.name) > 0
       /\ \A i \in DOMAIN url.name : url.name[i] \in HexChars
       /\ url.ext \in {"png", "jpg"}
    THEN url.name
    ELSE None_id

EndsWithJpg(url) == url.ext = "jpg" /\ url.tail = ""

IsFinalGE(url, blob_size) == EndsWithJpg(url) /\ blob_size >= FINAL_MIN_SIZE

\* url.endswith('.jpg') and blob_size > 100000
_is_final_image(url, blob_size) == EndsWithJpg(url) /\ blob_size > FINAL_MIN_SIZE

\* lines 826-834
StageOf(url, blob_size) ==
    IF _is_final_image(url, blob_size) THEN "final"
    ELSE IF blob_size > MEDIUM_MIN_SIZE THEN "medium"
    ELSE "preview"

\* ImageProgress(image_id, stage, blob, blob_size, url, is_final), lines 837-844
ImageProgress(blob, url) ==
    [image_id  |-> _extract_image_id(url),
     stage     |-> StageOf(url, blob.len),
     blob      |-> blob,
     blob_size |-> blob.len,
     url       |-> url,
     is_final  |-> _is_final_image(url, blob.len)]

NoCode == "<absent>"
Failure(code, msg) ==
    [success |-> FALSE, error_code |-> code, error |-> msg, urls |-> <<>>, b64_list |-> <<>>, count |-> 0]
Success(urls, b64) ==
    [success |-> TRUE, error_code |-> NoCode, error |-> "", urls |-> urls, b64_list |-> b64, count |-> Len(urls)]

BlockedResult == Failure("blocked", "Generate diblokir, tidak dapat mendapatkan gambar final")
NoDataResult == Failure(NoCode, "Tidak menerima data gambar")
ConnectionFailed == Failure(NoCode, "Koneksi gagal")

----------------------------------------------------------------------------
(* GenerationProgress *)

IndexOf(images, image_id) ==
    IF \E i \in DOMAIN images : images[i].image_id = image_id
    THEN CHOOSE i \in DOMAIN images : images[i].image_id = image_id
    ELSE 0

CountTracked(images) == Len(images)

\* lines 852-855: len([img for img in progress.images.values() if img.is_final])
CountFinal(images) == Cardinality({i \in DOMAIN images : images[i].is_final})

\* GenerationProgress.check_blocked
check_blocked(images) ==
    /\ \E i \in DOMAIN images : images[i].stage = "medium"
    /\ ~ \E i \in DOMAIN images : images[i].is_final

ReplacesAlways(images, image_id) == TRUE

\* line 848: not existing or (not existing.is_final)
Replaces(images, image_id) ==
    \/ IndexOf(images, image_id) = 0
    \/ ~ images[IndexOf(images, image_id)].is_final

\* line 849: progress.images[image_id] = img_progress (a dict keeps a key's position)
StoreImage(images, img) ==
    IF IndexOf(images, img.image_id) = 0
    THEN Append(images, img)
    ELSE [images EXCEPT ![IndexOf(images, img.image_id)] = img]

----------------------------------------------------------------------------
(* _save_final_images *)

\* x outranks y under key (is_final, blob_size)
Outranks(x, y) ==
    \/ x.is_final /\ ~ y.is_final
    \/ x.is_final = y.is_final /\ x.blob_size > y.blob_size

RemoveAt(s, i) == [j \in 1..(Len(s) - 1) |-> IF j < i THEN s[j] ELSE s[j + 1]]

\* sorted(values, key=(is_final, blob_size), reverse=True): stable, so equal keys keep
\* their insertion order
RECURSIVE SortedDesc(_)
SortedDesc(s) ==
    IF s = <<>> THEN <<>>
    ELSE LET i == CHOOSE i \in DOMAIN s :
                    /\ \A j \in DOMAIN s : ~ Outranks(s[j], s[i])
                    /\ \A j \in DOMAIN s : j < i => Outranks(s[i], s[j])
         IN <<s[i]>> \o SortedDesc(RemoveAt(s, i))


LimitReachedLate(saved, k) == Len(saved) > k

\* line 1238: len(saved_ids) >= n
LimitReached(saved, k) == Len(saved) >= k

\* the loop of lines 1231-1263 over the sorted units from position i on; a unit whose
\* blob does not decode raises inside the try and is skipped
RECURSIVE SaveLoop(_, _, _, _)
SaveLoop(sorted, i, saved, k) ==
    IF i > Len(sorted) THEN saved
    ELSE IF \E j \in DOMAIN saved : saved[j].image_id = sorted[i].image_id
         THEN SaveLoop(sorted, i + 1, saved, k)
    ELSE IF LimitReached(saved, k) THEN saved
    ELSE IF sorted[i].blob.decodes
         THEN SaveLoop(sorted, i + 1, Append(saved, sorted[i]), k)
         ELSE SaveLoop(sorted, i + 1, saved, k)

\* the units _save_final_images saved, in the order of result_urls
_save_final_images(images, k) == SaveLoop(SortedDesc(images), 1, <<>>, k)

\* line 1245-1252: the url of a saved unit is <base>/images/<image_id>.<ext>
SavedUrl(img) == [image_id |-> img.image_id, ext |-> IF img.is_final THEN "jpg" ELSE "png"]
ResultUrls(saved) == [i \in DOMAIN saved |-> SavedUrl(saved[i])]
ResultB64(saved) == [i \in DOMAIN saved |-> saved[i].blob]

\* lines 927-947: what _do_generate returns once the read loop is left
ExitResult(images, k, err) ==
    LET saved == _save_final_images(images, k)
    IN IF saved # <<>> THEN Success(ResultUrls(saved), ResultB64(saved))
       ELSE IF err # <<>> THEN Failure(err[1].error_code, err[1].error)
       ELSE IF check_blocked(images) THEN BlockedResult
       ELSE NoDataResult

----------------------------------------------------------------------------
(* Idle values of the variables a specification does not use *)

PureIdle ==
    /\ arg_url = EmptyUrl /\ arg_blob = Blob(0, TRUE)
    /\ arg_images = <<>> /\ arg_n = 0 /\ ret = <<>>

GenIdle ==
    /\ n = 0 /\ pc_gen = "idle" /\ now = 0 /\ start_time = 0 /\ last_activity = 0
    /\ medium_received_time = None_time /\ progress_images = <<>>
    /\ progress_completed = 0 /\ error_info = <<>> /\ result_gen = <<>>
    /\ frames = 0 /\ idle_timeouts = 0 /\ not_stored = 0
    /\ callback_completed = <<>>

OrchIdle ==
    /\ flow = "idle" /\ sso = None /\ max_retries = 0 /\ pool_has_usage = FALSE
    /\ pc = "idle" /\ attempt = 0 /\ current_sso = None /\ last_error = <<>>
    /\ blocked_retries = 0 /\ attempt_result = <<>> /\ attempt_exc = <<>>
    /\ returned = <<>> /\ hist = <<>> /\ pool_log = <<>> /\ acquired = 0

StreamIdle ==
    /\ task = "idle" /\ cancel_requested = FALSE /\ queue = <<>> /\ done = FALSE
    /\ consumer = "idle" /\ item = <<>> /\ yielded = <<>> /\ enqueued = <<>>
    /\ task_pool_ops = 0 /\ polls = 0

VideoIdle ==
    /\ pc_video = "idle" /\ curl_available = FALSE /\ impl = "aiohttp" /\ profile = 1
    /\ post_status = 0 /\ chat_status = 0 /\ stream_log = <<>> /\ unterminated = FALSE
    /\ preview_image_urls = <<>> /\ final_video_url = "" /\ final_thumbnail_url = ""
    /\ result_video = <<>> /\ resolution = "480p" /\ jobs_created = 0

KeyIdle == api_key = "" /\ credentials = <<>> /\ key_ret = <<>>

AttIdle == att_state = <<>> /\ att_ctl = <<>> /\ clock = 0

----------------------------------------------------------------------------
(* SpecClassify: the classification of one inbound image event *)

ClassifyNames == {<<"a", "1">>, <<"9", "-", "f">>, <<"z", "1">>, <<>>}
ClassifySizes == {0, 10000, 30000, 30001, 50000, 100000, 100001, 150000}
ClassifyUrls ==
    {Url(d, nm, e, t) : d \in {"images", "thumbs"}, nm \in ClassifyNames,
                        e \in {"png", "jpg", "gif"}, t \in {"", "?v=1"}}
    \cup {EmptyUrl}
ClassifyBlobs == {Blob(len, TRUE) : len \in ClassifySizes}

\* lines 814-844: what one image event becomes
ClassifyEvent(blob, url) ==
    IF ~ (blob.len > 0 /\ url # EmptyUrl) THEN <<"ignored">>
    ELSE IF _extract_image_id(url) = None_id THEN <<"discarded">>
    ELSE <<"unit", ImageProgress(blob, url)>>

InitClassify ==
    /\ arg_url \in ClassifyUrls /\ arg_blob \in ClassifyBlobs
    /\ arg_images = <<>> /\ arg_n = 0 /\ ret = <<>>
    /\ GenIdle /\ OrchIdle /\ StreamIdle /\ VideoIdle /\ KeyIdle /\ AttIdle

Classify ==
    /\ ret = <<>>
    /\ ret' = ClassifyEvent(arg_blob, arg_url)
    /\ UNCHANGED <<arg_url, arg_blob, arg_images, arg_n, gen_vars, orch_vars,
                   stream_vars, video_vars, key_vars, att_vars>>

NextClassify == Classify
SpecClassify == InitClassify /\ [][NextClassify]_vars

----------------------------------------------------------------------------
(* SpecSave: _save_final_images on any unit map *)

SaveId(i) == <<"a", ToString(i)>>
SaveKinds ==
    {[ext |-> "png", len |-> 50000, decodes |-> TRUE],
     [ext |-> "jpg", len |-> 150000, decodes |-> TRUE],
     [ext |-> "jpg", len |-> 150000, decodes |-> FALSE]}
\* the i-th unit inserted: sizes differ with the position, and repeat, so that the order
\* of sizes is not the order of insertion and equal keys occur
SaveUnit(i, kind) ==
    ImageProgress(Blob(kind.len + 10000 * ((2 * i) % 3), kind.decodes),
                  Url("images", SaveId(i), kind.ext, ""))
SaveInputs ==
    UNION {{[i \in 1..len |-> SaveUnit(i, f[i])] : f \in [1..len -> SaveKinds]} : len \in 0..MaxUnits}

InitSave ==
    /\ arg_images \in SaveInputs /\ arg_n \in 0..MaxTarget
    /\ arg_url = EmptyUrl /\ arg_blob = Blob(0, TRUE) /\ ret = <<>>
    /\ GenIdle /\ OrchIdle /\ StreamIdle /\ VideoIdle /\ KeyIdle /\ AttIdle

Save ==
    /\ ret = <<>>
    /\ ret' = <<ExitResult(arg_images, arg_n, <<>>)>>
    /\ UNCHANGED <<arg_url, arg_blob, arg_images, arg_n, gen_vars, orch_vars,
                   stream_vars, video_vars, key_vars, att_vars>>

NextSave == Save
SpecSave == InitSave /\ [][NextSave]_vars

----------------------------------------------------------------------------
(* SpecImage: one attempt of _do_generate *)

ID_A == <<"a", "1">>
ID_B == <<"b", "2">>
\* the image events an attempt may receive: [blob, url]
GenImageEvents ==
    {[blob |-> Blob(len, TRUE), url |-> Url("images", ID_A, "jpg", "")] : len \in {30000, 30001, 100001}}
    \cup {[blob |-> Blob(100001, FALSE), url |-> Url("images", ID_A, "jpg", "")],
          [blob |-> Blob(100001, TRUE), url |-> Url("images", ID_A, "png", "")],
          [blob |-> Blob(30001, TRUE), url |-> Url("images", ID_B, "jpg", "")],
          [blob |-> Blob(100001, TRUE), url |-> Url("images", ID_B, "jpg", "")]}
UnroutableUrls == {Url("images", <<"z", "1">>, "jpg", ""), Url("thumbs", ID_A, "jpg", "")}
ErrCodes == {"rate_limit_exceeded", "internal_error"}
MsgDelays == {0, 1, 4}      \* seconds a frame may take to arrive, below RECEIVE_TIMEOUT

InitImage ==
    /\ n \in 0..MaxN /\ pc_gen = "connect" /\ now = 0 /\ start_time = 0
    /\ last_activity = 0 /\ medium_received_time = None_time
    /\ progress_images = <<>> /\ progress_completed = 0 /\ error_info = <<>>
    /\ result_gen = <<>> /\ frames = 0 /\ idle_timeouts = 0 /\ not_stored = 0
    /\ callback_completed = <<>>
    /\ PureIdle /\ OrchIdle /\ StreamIdle /\ VideoIdle /\ KeyIdle /\ AttIdle

\* line 804: the while condition
LoopGuard == now - start_time < GENERATION_TIMEOUT

BlockedOnTimeoutLate(since) == since > BLOCKED_AFTER_TIMEOUT + 5

BlockedOnMessageInclusive(since) == since >= BLOCKED_AFTER_MESSAGE

\* line 891
BlockedOnMessage(since) == since > BLOCKED_AFTER_MESSAGE
\* line 910
BlockedOnTimeout(since) == since > BLOCKED_AFTER_TIMEOUT
\* line 922
IdleComplete(completed, idle) == completed > 0 /\ idle > IDLE_COMPLETE_AFTER

Return(r) == result_gen' = <<r>> /\ pc_gen' = "done"
Continue == result_gen' = result_gen /\ pc_gen' = "loop"

\* lines 883-900: after a TEXT frame was handled
AfterText(images, completed, err, med, t) ==
    /\ progress_images' = images /\ progress_completed' = completed
    /\ error_info' = err /\ medium_received_time' = med
    /\ IF completed >= n THEN Return(ExitResult(images, n, err))
       ELSE IF med # None_time /\ completed = 0 /\ BlockedOnMessage(t - med)
            THEN Return(BlockedResult)
       ELSE Continue

\* lines 778-802: the session and the socket open, the request is sent
Connect ==
    /\ pc_gen = "connect"
    /\ pc_gen' = "loop" /\ start_time' = now /\ last_activity' = now
    /\ UNCHANGED <<n, not_stored, callback_completed, frames, now, medium_received_time, progress_images, progress_completed,
                   error_info, result_gen, idle_timeouts, pure_vars, orch_vars,
                   stream_vars, video_vars, key_vars, att_vars>>

\* lines 949-951: ws_connect or send_json raises aiohttp.ClientError
ConnectFails ==
    /\ pc_gen = "connect"
    /\ Return(ConnectionFailed)
    /\ UNCHANGED <<n, not_stored, callback_completed, frames, now, start_time, last_activity, medium_received_time, progress_images,
                   progress_completed, error_info, idle_timeouts, pure_vars, orch_vars,
                   stream_vars, video_vars, key_vars, att_vars>>

\* lines 813-868: an image event with blob and a url that carries an id; when it is stored
\* the callback is awaited with the progress object (line 866), whose completed it reads
RecvImage ==
    /\ pc_gen = "loop" /\ LoopGuard /\ frames < MaxFrames
    /\ frames' = frames + 1
    /\ \E d \in MsgDelays, ev \in GenImageEvents :
         LET t == now + d
             img == ImageProgress(ev.blob, ev.url)
             med == IF img.stage = "medium" /\ medium_received_time = None_time
                    THEN t ELSE medium_received_time
             stored == Replaces(progress_images, img.image_id)
             images == IF stored THEN StoreImage(progress_images, img) ELSE progress_images
             completed == IF stored THEN CountFinal(images) ELSE progress_completed
         IN /\ now' = t /\ last_activity' = t /\ idle_timeouts' = 0
            /\ not_stored' = IF stored THEN not_stored ELSE not_stored + 1
            /\ callback_completed' = IF stored THEN <<completed>> ELSE callback_completed
            /\ AfterText(images, completed, error_info, med, t)
    /\ UNCHANGED <<n, start_time, pure_vars, orch_vars,
                   stream_vars, video_vars, key_vars, att_vars>>

\* lines 818-820: the url carries no id: `continue`
RecvUnroutable ==
    /\ pc_gen = "loop" /\ LoopGuard /\ frames < MaxFrames
    /\ frames' = frames + 1
    /\ \E d \in MsgDelays, url \in UnroutableUrls :
         /\ _extract_image_id(url) = None_id
         /\ now' = now + d /\ last_activity' = now + d
    /\ idle_timeouts' = 0
    /\ UNCHANGED <<n, not_stored, callback_completed, pc_gen, start_time, medium_received_time, progress_images,
                   progress_completed, error_info, result_gen, pure_vars, orch_vars,
                   stream_vars, video_vars, key_vars, att_vars>>

\* a TEXT frame that is an image event without blob or url, or of another type
RecvIgnoredText ==
    /\ pc_gen = "loop" /\ LoopGuard /\ frames < MaxFrames
    /\ frames' = frames + 1
    /\ \E d \in MsgDelays :
         /\ now' = now + d /\ last_activity' = now + d
         /\ AfterText(progress_images, progress_completed, error_info,
                      medium_received_time, now + d)
    /\ idle_timeouts' = 0
    /\ UNCHANGED <<n, not_stored, callback_completed, start_time, pure_vars, orch_vars,
                   stream_vars, video_vars, key_vars, att_vars>>

TerminalErrorNever(code) == FALSE
TerminalErrorAlways(code) == TRUE
\* line 876: if error_code == "rate_limit_exceeded"
TerminalError(code) == code = "rate_limit_exceeded"

\* lines 870-881: an error event
RecvError ==
    /\ pc_gen = "loop" /\ LoopGuard /\ frames < MaxFrames
    /\ frames' = frames + 1
    /\ \E d \in MsgDelays, code \in ErrCodes :
         LET err == <<[error_code |-> code, error |-> "err_msg"]>>
         IN /\ now' = now + d /\ last_activity' = now + d
            /\ IF TerminalError(code)
               THEN /\ Return(Failure(code, "err_msg"))
                    /\ error_info' = err
                    /\ UNCHANGED <<progress_images, progress_completed, medium_received_time>>
               ELSE AfterText(progress_images, progress_completed, err,
                              medium_received_time, now + d)
    /\ idle_timeouts' = 0
    /\ UNCHANGED <<n, not_stored, callback_completed, start_time, pure_vars, orch_vars,
                   stream_vars, video_vars, key_vars, att_vars>>

\* line 810: json.loads raises, or the value is no dict: the exception leaves _do_generate
RecvMalformed ==
    /\ pc_gen = "loop" /\ LoopGuard /\ frames < MaxFrames
    /\ frames' = frames + 1
    /\ \E d \in MsgDelays : now' = now + d /\ last_activity' = now + d
    /\ pc_gen' = "raised" /\ idle_timeouts' = 0
    /\ UNCHANGED <<n, not_stored, callback_completed, start_time, medium_received_time, progress_images, progress_completed,
                   error_info, result_gen, pure_vars, orch_vars,
                   stream_vars, video_vars, key_vars, att_vars>>

\* line 808/902: a frame that is neither TEXT nor CLOSED/ERROR (binary, ping, ...)
RecvOtherFrame ==
    /\ pc_gen = "loop" /\ LoopGuard /\ frames < MaxFrames
    /\ frames' = frames + 1
    /\ \E d \in MsgDelays : now' = now + d
    /\ idle_timeouts' = 0
    /\ UNCHANGED <<n, not_stored, callback_completed, pc_gen, start_time, last_activity, medium_received_time, progress_images,
                   progress_completed, error_info, result_gen, pure_vars, orch_vars,
                   stream_vars, video_vars, key_vars, att_vars>>

\* lines 902-904: CLOSED or ERROR: break
RecvClosed ==
    /\ pc_gen = "loop" /\ LoopGuard /\ frames < MaxFrames
    /\ frames' = frames + 1
    /\ \E d \in MsgDelays : now' = now + d
    /\ Return(ExitResult(progress_images, n, error_info))
    /\ idle_timeouts' = 0
    /\ UNCHANGED <<n, not_stored, callback_completed, start_time, last_activity, medium_received_time, progress_images,
                   progress_completed, error_info, pure_vars, orch_vars,
                   stream_vars, video_vars, key_vars, att_vars>>

\* lines 906-925: wait_for times out after 5 seconds
ReadTimeout ==
    /\ pc_gen = "loop" /\ LoopGuard
    /\ now' = now + RECEIVE_TIMEOUT
    /\ idle_timeouts' = idle_timeouts + 1
    /\ IF /\ medium_received_time # None_time /\ progress_completed = 0
          /\ BlockedOnTimeout(now' - medium_received_time)
       THEN Return(BlockedResult)
       ELSE IF IdleComplete(progress_completed, now' - last_activity)
            THEN Return(ExitResult(progress_images, n, error_info))
       ELSE Continue
    /\ UNCHANGED <<n, not_stored, callback_completed, frames, start_time, last_activity, medium_received_time, progress_images,
                   progress_completed, error_info, pure_vars, orch_vars,
                   stream_vars, video_vars, key_vars, att_vars>>

\* line 804: the deadline has passed when the while condition is evaluated
DeadlineExit ==
    /\ pc_gen = "loop" /\ ~ LoopGuard
    /\ Return(ExitResult(progress_images, n, error_info))
    /\ UNCHANGED <<n, not_stored, callback_completed, frames, now, start_time, last_activity, medium_received_time, progress_images,
                   progress_completed, error_info, idle_timeouts, pure_vars, orch_vars,
                   stream_vars, video_vars, key_vars, att_vars>>

NextImage ==
    \/ Connect \/ ConnectFails
    \/ RecvImage \/ RecvUnroutable \/ RecvIgnoredText \/ RecvError \/ RecvMalformed
    \/ RecvOtherFrame \/ RecvClosed
    \/ ReadTimeout \/ DeadlineExit
SpecImage == InitImage /\ [][NextImage]_vars

----------------------------------------------------------------------------
(* SpecOrch: one call of generate or generate_video *)

Creds == {"sso-1", "sso-2"}
Pinned == "sso-pinned"

NoSsoResultOrLastError ==
    IF last_error # <<>> THEN last_error[1] ELSE Failure(NoCode, "Tidak ada SSO yang tersedia")

\* lines 606, 690
NoSsoResult == Failure(NoCode, "Tidak ada SSO yang tersedia")
AllRetriesFailed == Failure(NoCode, "Semua retry gagal")
TerminalBlocked == Failure("blocked", "Berturut-turut 3 kali diblokir, silakan coba lagi nanti")
ExceptionResult(msg) == Failure(NoCode, msg)

\* how an attempt of the image driver can end, as seen by generate
ImageEvents ==
    {"success", "blocked", "rate_limit_exceeded", "unauthorized", "other_error", "no_data",
     "client_error", "exception"}
\* how an attempt of the video driver can end, as seen by generate_video
VideoEvents ==
    {"success", "rate_limit_exceeded", "unauthorized", "video_post_failed",
     "video_not_supported", "chat_failed", "client_error", "exception"}

Returns(r) == <<"return", r>>
Raises(msg) == <<"raise", msg>>

\* _do_generate as generate sees it: the dict returned (lines 877, 896, 915, 931-947), the
\* aiohttp.ClientError turned into a dict (lines 949-951), or another exception raised
_do_generate(ev) ==
    CASE ev = "success" -> Returns(Success(<<SavedUrl([image_id |-> ID_A, is_final |-> TRUE])>>,
                                           <<Blob(100001, TRUE)>>))
      [] ev = "blocked" -> Returns(BlockedResult)
      [] ev = "rate_limit_exceeded" -> Returns(Failure("rate_limit_exceeded", "err_msg"))
      [] ev = "unauthorized" -> Returns(Failure("unauthorized", "err_msg"))
      [] ev = "other_error" -> Returns(Failure("internal_error", "err_msg"))
      [] ev = "no_data" -> Returns(NoDataResult)
      [] ev = "client_error" -> Returns(ConnectionFailed)
      [] ev = "exception" -> Raises("Exception")

\* _do_generate_video as generate_video sees it (lines 983, 993, 1018-1032, 1093-1113)
_do_generate_video(ev) ==
    CASE ev = "success" -> Returns(Success(<<[image_id |-> <<"v">>, ext |-> "mp4"]>>, <<>>))
      [] ev = "rate_limit_exceeded" -> Returns(Failure("rate_limit_exceeded", "Rate limit exceeded"))
      [] ev = "unauthorized" -> Returns(Failure("unauthorized", "Unauthorized"))
      [] ev = "video_post_failed" -> Returns(Failure("video_post_failed", "Gagal membuat video post"))
      [] ev = "video_not_supported" ->
            Returns(Failure("video_not_supported", "Video progress/event tidak ditemukan dari app-chat stream"))
      [] ev = "chat_failed" -> Returns(Failure(NoCode, "Video chat failed"))
      [] ev = "client_error" -> Returns(ConnectionFailed)
      [] ev = "exception" -> Raises("Exception")

DriverEvents(f) == IF f = "image" THEN ImageEvents ELSE VideoEvents
Driver(f, ev) == IF f = "image" THEN _do_generate(ev) ELSE _do_generate_video(ev)

\* result.get("error_code", "")
ErrorCode(r) == IF r.error_code = NoCode THEN "" ELSE r.error_code

RotationWorthyRateLimitOnly(code) == code = "rate_limit_exceeded"
RotationWorthyAnyCode(code) == code # ""

\* lines 633, 740: error_code in ["rate_limit_exceeded", "unauthorized"]
RotationWorthy(code) == code \in {"rate_limit_exceeded", "unauthorized"}

BlockedCapOneLater(b) == b >= max_blocked_retries + 1
\* line 729: blocked_retries >= max_blocked_retries
BlockedCapReached(b) == b >= max_blocked_retries

IsPinnedNever(s) == FALSE
\* `if sso:` of lines 635, 646, 736, 743, 754
IsPinned(s) == s # None

\* lines 649, 758: last_error or {"success": False, "error": "Semua retry gagal"}
LastErrorOr(le) == IF le # <<>> THEN le[1] ELSE AllRetriesFailed

Call(op, c) == [op |-> op, sso |-> c]
Logged(op) == \E i \in DOMAIN pool_log : pool_log[i].op = op
CountLogged(op) == Cardinality({i \in DOMAIN pool_log : pool_log[i].op = op})

InitOrch ==
    /\ flow \in {"image", "video"} /\ sso \in {None, Pinned}
    /\ max_retries \in 0..MaxRetries /\ pool_has_usage \in BOOLEAN
    /\ pc = "loop" /\ attempt = 0 /\ current_sso = None /\ last_error = <<>>
    /\ blocked_retries = 0 /\ attempt_result = <<>> /\ attempt_exc = <<>>
    /\ returned = <<>> /\ hist = <<>> /\ pool_log = <<>> /\ acquired = 0
    /\ PureIdle /\ GenIdle /\ StreamIdle /\ VideoIdle /\ KeyIdle /\ AttIdle

call_inputs == <<flow, sso, max_retries, pool_has_usage>>

ReturnToCaller(r) == returned' = <<r>> /\ pc' = "returned"

NextIterationSameIndex == attempt' = attempt /\ pc' = "loop" /\ returned' = returned
\* `continue`, or falling off the end of the loop body
NextIteration == attempt' = attempt + 1 /\ pc' = "loop" /\ returned' = returned

\* lines 649, 758: range(max_retries) is used up
Exhausted ==
    /\ pc = "loop" /\ attempt >= max_retries
    /\ ReturnToCaller(LastErrorOr(last_error))
    /\ UNCHANGED <<call_inputs, attempt, current_sso, last_error, blocked_retries,
                   attempt_result, attempt_exc, hist, pool_log, acquired, pure_vars, gen_vars,
                   stream_vars, video_vars, key_vars, att_vars>>

\* lines 603, 687 with sso given
UsePinned ==
    /\ pc = "loop" /\ attempt < max_retries /\ IsPinned(sso)
    /\ current_sso' = sso /\ pool_log' = <<>> /\ pc' = "age"
    /\ attempt_result' = <<>> /\ attempt_exc' = <<>>
    /\ UNCHANGED <<call_inputs, attempt, last_error, blocked_retries, returned, hist,
                   acquired, pure_vars, gen_vars,
                   stream_vars, video_vars, key_vars, att_vars>>

\* lines 603, 687: await sso_manager.get_next_sso() gives a credential
Acquire ==
    /\ pc = "loop" /\ attempt < max_retries /\ ~ IsPinned(sso)
    /\ \E c \in Creds : current_sso' = c
    /\ pool_log' = <<Call("get_next_sso", None)>> /\ acquired' = acquired + 1
    /\ pc' = "age" /\ attempt_result' = <<>> /\ attempt_exc' = <<>>
    /\ UNCHANGED <<call_inputs, attempt, last_error, blocked_retries, returned, hist,
                   pure_vars, gen_vars,
                   stream_vars, video_vars, key_vars, att_vars>>

\* lines 605-606, 689-690: the pool has no credential
AcquireNone ==
    /\ pc = "loop" /\ attempt < max_retries /\ ~ IsPinned(sso)
    /\ current_sso' = None
    /\ pool_log' = <<Call("get_next_sso", None)>> /\ acquired' = acquired + 1
    /\ attempt_result' = <<>> /\ attempt_exc' = <<>>
    /\ ReturnToCaller(NoSsoResult)
    /\ UNCHANGED <<call_inputs, attempt, last_error, blocked_retries, hist, pure_vars, gen_vars,
                   stream_vars, video_vars, key_vars, att_vars>>

NeedsVerifyAlways(age_verified) == TRUE
\* lines 609, 694: if age_verified == 0
NeedsVerify(age_verified) == age_verified = 0

\* a call that gave a value back to generate: the flag read, the outcome of _verify_age
Answer(op, c, v) == [op |-> op, sso |-> c, ret |-> v]

\* lines 608-612, 693-700: the age flag is read; when unset, _verify_age is called once and
\* the flag is set if it succeeded.  _verify_age returns False for whatever goes wrong in
\* it (lines 213-219, 254-260)
AgeCheck ==
    /\ pc = "age"
    /\ \E age_verified \in {0, 1}, verify_success \in BOOLEAN :
         pool_log' = pool_log \o <<Answer("get_age_verified", current_sso, age_verified)>>
                     \o (IF NeedsVerify(age_verified)
                         THEN <<Answer("_verify_age", current_sso, verify_success)>> ELSE <<>>)
                     \o (IF NeedsVerify(age_verified) /\ verify_success
                         THEN <<Call("set_age_verified", current_sso)>> ELSE <<>>)
    /\ pc' = "try"
    /\ UNCHANGED <<call_inputs, attempt, current_sso, last_error, blocked_retries,
                   attempt_result, attempt_exc, returned, hist, acquired, pure_vars, gen_vars,
                   stream_vars, video_vars, key_vars, att_vars>>

\* lines 615, 703: the driver runs and returns a dict
AttemptReturns ==
    /\ pc = "try"
    /\ \E ev \in DriverEvents(flow) :
         /\ Driver(flow, ev)[1] = "return"
         /\ attempt_result' = <<Driver(flow, ev)[2]>>
         /\ hist' = Append(hist, ev)
    /\ pool_log' = pool_log \o <<Call("driver", current_sso)>>
    /\ pc' = "result"
    /\ UNCHANGED <<call_inputs, attempt, current_sso, last_error, blocked_retries,
                   attempt_exc, returned, acquired, pure_vars, gen_vars,
                   stream_vars, video_vars, key_vars, att_vars>>

\* lines 642, 750: the driver raises
AttemptRaises ==
    /\ pc = "try"
    /\ \E ev \in DriverEvents(flow) :
         /\ Driver(flow, ev)[1] = "raise"
         /\ attempt_exc' = <<Driver(flow, ev)[2]>>
         /\ hist' = Append(hist, ev)
    /\ pool_log' = pool_log \o <<Call("driver", current_sso)>>
    /\ pc' = "except"
    /\ UNCHANGED <<call_inputs, attempt, current_sso, last_error, blocked_retries,
                   attempt_result, returned, acquired, pure_vars, gen_vars,
                   stream_vars, video_vars, key_vars, att_vars>>

UsageCallsNever == <<>>

\* lines 627-628, 715-716: record_usage when the pool has it
UsageCalls == IF pool_has_usage THEN <<Call("record_usage", current_sso)>> ELSE <<>>

\* lines 625-629, 712-717
OnSuccess ==
    /\ pc = "result" /\ attempt_result[1].success
    /\ pool_log' = pool_log \o <<Call("mark_success", current_sso)>> \o UsageCalls
    /\ ReturnToCaller(attempt_result[1])
    /\ UNCHANGED <<call_inputs, attempt, current_sso, last_error, blocked_retries,
                   attempt_result, attempt_exc, hist, acquired, pure_vars, gen_vars,
                   stream_vars, video_vars, key_vars, att_vars>>

\* lines 722-738 of generate
OnBlocked ==
    /\ pc = "result" /\ flow = "image" /\ ~ attempt_result[1].success
    /\ ErrorCode(attempt_result[1]) = "blocked"
    /\ blocked_retries' = blocked_retries + 1
    /\ pool_log' = pool_log \o <<Call("mark_failed", current_sso)>>
    /\ IF BlockedCapReached(blocked_retries + 1)
       THEN ReturnToCaller(TerminalBlocked) /\ attempt' = attempt
       ELSE IF IsPinned(sso)
            THEN ReturnToCaller(attempt_result[1]) /\ attempt' = attempt
       ELSE NextIteration
    /\ UNCHANGED <<call_inputs, current_sso, last_error, attempt_result, attempt_exc, hist,
                   acquired, pure_vars, gen_vars,
                   stream_vars, video_vars, key_vars, att_vars>>

\* lines 740-746 of generate
OnRotationWorthy ==
    /\ pc = "result" /\ flow = "image" /\ ~ attempt_result[1].success
    /\ ErrorCode(attempt_result[1]) # "blocked"
    /\ RotationWorthy(ErrorCode(attempt_result[1]))
    /\ pool_log' = pool_log \o <<Call("mark_failed", current_sso)>>
    /\ last_error' = attempt_result
    /\ IF IsPinned(sso)
       THEN ReturnToCaller(attempt_result[1]) /\ attempt' = attempt
       ELSE NextIteration
    /\ UNCHANGED <<call_inputs, current_sso, blocked_retries, attempt_result, attempt_exc,
                   hist, acquired, pure_vars, gen_vars,
                   stream_vars, video_vars, key_vars, att_vars>>

\* lines 747-748 of generate
OnOtherFailure ==
    /\ pc = "result" /\ flow = "image" /\ ~ attempt_result[1].success
    /\ ErrorCode(attempt_result[1]) # "blocked"
    /\ ~ RotationWorthy(ErrorCode(attempt_result[1]))
    /\ ReturnToCaller(attempt_result[1])
    /\ UNCHANGED <<call_inputs, attempt, current_sso, last_error, blocked_retries,
                   attempt_result, attempt_exc, hist, pool_log, acquired, pure_vars, gen_vars,
                   stream_vars, video_vars, key_vars, att_vars>>

\* lines 631-638 of generate_video
OnVideoRotationWorthy ==
    /\ pc = "result" /\ flow = "video" /\ ~ attempt_result[1].success
    /\ RotationWorthy(ErrorCode(attempt_result[1]))
    /\ last_error' = attempt_result
    /\ pool_log' = pool_log \o <<Call("mark_failed", current_sso)>>
    /\ IF IsPinned(sso)
       THEN ReturnToCaller(attempt_result[1]) /\ attempt' = attempt
       ELSE NextIteration
    /\ UNCHANGED <<call_inputs, current_sso, blocked_retries, attempt_result, attempt_exc,
                   hist, acquired, pure_vars, gen_vars,
                   stream_vars, video_vars, key_vars, att_vars>>

\* lines 631-640 of generate_video
OnVideoOtherFailure ==
    /\ pc = "result" /\ flow = "video" /\ ~ attempt_result[1].success
    /\ ~ RotationWorthy(ErrorCode(attempt_result[1]))
    /\ last_error' = attempt_result
    /\ ReturnToCaller(attempt_result[1])
    /\ UNCHANGED <<call_inputs, attempt, current_sso, blocked_retries, attempt_result,
                   attempt_exc, hist, pool_log, acquired, pure_vars, gen_vars,
                   stream_vars, video_vars, key_vars, att_vars>>

\* lines 642-647, 750-756: except Exception as e
OnException ==
    /\ pc = "except"
    /\ pool_log' = pool_log \o <<Call("mark_failed", current_sso)>>
    /\ last_error' = <<ExceptionResult(attempt_exc[1])>>
    /\ IF IsPinned(sso)
       THEN ReturnToCaller(ExceptionResult(attempt_exc[1])) /\ attempt' = attempt
       ELSE NextIteration
    /\ UNCHANGED <<call_inputs, current_sso, blocked_retries, attempt_result, attempt_exc,
                   hist, acquired, pure_vars, gen_vars,
                   stream_vars, video_vars, key_vars, att_vars>>

NextOrch ==
    \/ Exhausted \/ UsePinned \/ Acquire \/ AcquireNone \/ AgeCheck
    \/ AttemptReturns \/ AttemptRaises
    \/ OnSuccess \/ OnBlocked \/ OnRotationWorthy \/ OnOtherFailure
    \/ OnVideoRotationWorthy \/ OnVideoOtherFailure \/ OnException
SpecOrch == InitOrch /\ [][NextOrch]_vars
\* every await of the call returns: the pool answers and each attempt terminates
SpecOrchFair == SpecOrch /\ WF_vars(NextOrch)

----------------------------------------------------------------------------
(* SpecOrchFault: the same call against a pool whose operations may raise *)

\* lines 603, 687: get_next_sso raises; the call is outside the try
AcquireRaises ==
    /\ pc = "loop" /\ attempt < max_retries /\ ~ IsPinned(sso)
    /\ pool_log' = <<Call("get_next_sso", None)>> /\ acquired' = acquired + 1
    /\ attempt_result' = <<>> /\ attempt_exc' = <<"PoolError">>
    /\ pc' = "raised"
    /\ UNCHANGED <<call_inputs, attempt, current_sso, last_error, blocked_retries, returned,
                   hist, pure_vars, gen_vars,
                   stream_vars, video_vars, key_vars, att_vars>>

\* lines 608-612, 693-698: get_age_verified or set_age_verified raises, outside the try
AgeCheckRaises ==
    /\ pc = "age"
    /\ \E op \in {"get_age_verified", "set_age_verified"} :
         pool_log' = pool_log
                     \o (IF op = "set_age_verified"
                         THEN <<Answer("get_age_verified", current_sso, 0),
                                Answer("_verify_age", current_sso, TRUE)>>
                         ELSE <<>>)
                     \o <<Call(op, current_sso)>>
    /\ attempt_exc' = <<"PoolError">>
    /\ pc' = "raised"
    /\ UNCHANGED <<call_inputs, attempt, current_sso, last_error, blocked_retries,
                   attempt_result, returned, hist, acquired, pure_vars, gen_vars,
                   stream_vars, video_vars, key_vars, att_vars>>

\* the pool operation the try block calls for this result, if any
PoolOpInTry(r) ==
    IF r.success THEN {"mark_success"} \cup (IF pool_has_usage THEN {"record_usage"} ELSE {})
    ELSE IF flow = "image" /\ ErrorCode(r) = "blocked" THEN {"mark_failed"}
    ELSE IF RotationWorthy(ErrorCode(r)) THEN {"mark_failed"}
    ELSE {}

\* lines 626-628, 634, 713-716, 727, 741: a pool operation raises inside the try; what
\* the block assigned before the call stays assigned
PoolRaisesInTry ==
    /\ pc = "result"
    /\ \E op \in PoolOpInTry(attempt_result[1]) :
         pool_log' = pool_log
                     \o (IF op = "record_usage" THEN <<Call("mark_success", current_sso)>> ELSE <<>>)
                     \o <<Call(op, current_sso)>>
    /\ blocked_retries' = IF flow = "image" /\ ~ attempt_result[1].success
                             /\ ErrorCode(attempt_result[1]) = "blocked"
                          THEN blocked_retries + 1 ELSE blocked_retries
    /\ last_error' = IF flow = "video" /\ ~ attempt_result[1].success
                     THEN attempt_result ELSE last_error
    /\ attempt_exc' = <<"PoolError">>
    /\ pc' = "except"
    /\ UNCHANGED <<call_inputs, attempt, current_sso, attempt_result, returned, hist,
                   acquired, pure_vars, gen_vars,
                   stream_vars, video_vars, key_vars, att_vars>>

\* lines 644, 752: mark_failed raises inside the except handler
OnExceptionRaises ==
    /\ pc = "except"
    /\ pool_log' = pool_log \o <<Call("mark_failed", current_sso)>>
    /\ attempt_exc' = <<"PoolError">>
    /\ pc' = "raised"
    /\ UNCHANGED <<call_inputs, attempt, current_sso, last_error, blocked_retries,
                   attempt_result, returned, hist, acquired, pure_vars, gen_vars,
                   stream_vars, video_vars, key_vars, att_vars>>

NextOrchFault ==
    \/ NextOrch
    \/ AcquireRaises \/ AgeCheckRaises \/ PoolRaisesInTry \/ OnExceptionRaises
SpecOrchFault == InitOrch /\ [][NextOrchFault]_vars

----------------------------------------------------------------------------
(* SpecStream: one call of generate_stream, its background task and its consumer *)

\* the image events the task's attempts may receive: one id, at each stage
StreamImageEvents ==
    {[blob |-> Blob(len, TRUE), url |-> Url("images", ID_A, "jpg", "")] : len \in {30000, 30001, 100001}}
\* the dict callback puts for a unit (lines 1289-1297)
ProgressItem(img) ==
    [type |-> "progress", image_id |-> img.image_id, stage |-> img.stage, is_final |-> img.is_final]
ProgressItems == {ProgressItem(ImageProgress(ev.blob, ev.url)) : ev \in StreamImageEvents}
\* what generate may return to generate_task
StreamResults ==
    {Success(<<SavedUrl([image_id |-> ID_A, is_final |-> TRUE])>>, <<Blob(100001, TRUE)>>),
     BlockedResult, AllRetriesFailed}
\* line 1308: {"type": "result", **result}
ResultItem(r) == [type |-> "result", result |-> r]

\* line 1285: asyncio.Queue() is created with the default maxsize, 0: no capacity
maxsize == 0
\* asyncio.Queue.full(): never full when maxsize <= 0; put waits while the queue is full
QueueFull(q) == maxsize > 0 /\ Len(q) >= maxsize

ProgressCount(q) == Cardinality({i \in DOMAIN q : q[i].type = "progress"})

CatchesCancelledToo == TRUE
\* lines 750, 867, 1262: `except Exception` does not catch asyncio.CancelledError, and
\* _do_generate catches aiohttp.ClientError only (line 949)
CatchesCancelled == FALSE

LoopGoesOnUntilDone(d, q) == ~ d
\* line 1313: while not done.is_set() or not queue.empty()
LoopGoesOn(d, q) == ~ d \/ q # <<>>

\* the task runs on at its next resumption, unless a CancelledError is thrown into it
TaskRuns == task = "running" /\ (~ cancel_requested \/ CatchesCancelled)

\* lines 1321-1323: finally: if not task.done(): task.cancel()
Finally == cancel_requested' = (IF task = "running" THEN TRUE ELSE cancel_requested)

\* lines 1285-1311: the queue, the event and the task are created; the consumer's first
\* __anext__ arrives at the loop
InitStream ==
    /\ task = "running" /\ cancel_requested = FALSE /\ queue = <<>> /\ done = FALSE
    /\ consumer = "waiting" /\ item = <<>> /\ yielded = <<>> /\ enqueued = <<>>
    /\ task_pool_ops = 0 /\ polls = 0
    /\ PureIdle /\ GenIdle /\ OrchIdle /\ VideoIdle /\ KeyIdle /\ AttIdle

\* lines 846-866 and 1288-1297: the attempt running in the task receives an image event
\* that line 848 lets it store; it stores it and calls the callback, which puts the item
Callback ==
    /\ TaskRuns /\ ProgressCount(enqueued) < MaxProgress /\ ~ QueueFull(queue)
    /\ \E ev \in StreamImageEvents :
         LET img == ImageProgress(ev.blob, ev.url)
             stored == Replaces(progress_images, img.image_id)
         IN /\ stored = TRUE
            /\ progress_images' = StoreImage(progress_images, img)
            /\ progress_completed' = CountFinal(progress_images')
            /\ queue' = Append(queue, ProgressItem(img))
            /\ enqueued' = Append(enqueued, ProgressItem(img))
    /\ UNCHANGED <<task, cancel_requested, done, consumer, item, yielded, task_pool_ops, polls,
                   n, pc_gen, now, start_time, last_activity, medium_received_time, error_info,
                   result_gen, frames, idle_timeouts, not_stored, callback_completed,
                   pure_vars, orch_vars, video_vars, key_vars, att_vars>>

\* line 798: generate starts a further attempt, which tracks its units from nothing
TaskNewAttempt ==
    /\ TaskRuns /\ progress_images # <<>>
    /\ progress_images' = <<>> /\ progress_completed' = 0
    /\ UNCHANGED <<n, pc_gen, now, start_time, last_activity, medium_received_time, error_info,
                   result_gen, frames, idle_timeouts, not_stored, callback_completed,
                   pure_vars, orch_vars, stream_vars, video_vars, key_vars, att_vars>>

\* a pool operation of generate (lines 687-752) performed by the task
TaskPoolOp ==
    /\ TaskRuns /\ task_pool_ops < MaxPoolOps
    /\ task_pool_ops' = task_pool_ops + 1
    /\ UNCHANGED <<task, cancel_requested, queue, done, consumer, item, yielded, enqueued, polls,
                   pure_vars, gen_vars, orch_vars, video_vars, key_vars, att_vars>>

\* lines 1300-1309: generate returns, the result is put and the event set; the queue is
\* unbounded, so put does not suspend and the task ends in the same resumption
TaskReturns ==
    /\ TaskRuns /\ ~ QueueFull(queue)
    /\ \E r \in StreamResults :
         /\ returned' = <<r>>
         /\ queue' = Append(queue, ResultItem(r))
         /\ enqueued' = Append(enqueued, ResultItem(r))
    /\ done' = TRUE /\ task' = "finished"
    /\ UNCHANGED <<cancel_requested, consumer, item, yielded, task_pool_ops, polls,
                   flow, sso, max_retries, pool_has_usage, pc, attempt, current_sso, last_error,
                   blocked_retries, attempt_result, attempt_exc, hist, pool_log, acquired,
                   pure_vars, gen_vars, video_vars, key_vars, att_vars>>

\* generate raises: a pool operation outside its try block (lines 687, 693, 698) or in its
\* except handler (line 752) raised; generate_task has no handler (lines 1299-1309), so the
\* task ends with the exception, nothing is put and the event is not set
TaskRaises ==
    /\ TaskRuns
    /\ task' = "raised"
    /\ UNCHANGED <<cancel_requested, queue, done, consumer, item, yielded, enqueued,
                   task_pool_ops, polls, pure_vars, gen_vars, orch_vars, video_vars, key_vars, att_vars>>

\* the CancelledError is thrown into the task at the await it is suspended in, and leaves
\* generate_task
TaskCancelled ==
    /\ task = "running" /\ cancel_requested /\ ~ CatchesCancelled
    /\ task' = "cancelled"
    /\ UNCHANGED <<cancel_requested, queue, done, consumer, item, yielded, enqueued,
                   task_pool_ops, polls, pure_vars, gen_vars, orch_vars, video_vars, key_vars, att_vars>>

\* lines 1315-1316: queue.get() gives an item, which is yielded
Get ==
    /\ consumer = "waiting" /\ queue # <<>>
    /\ item' = <<Head(queue)>> /\ queue' = Tail(queue)
    /\ yielded' = Append(yielded, Head(queue))
    /\ consumer' = "yielded"
    /\ UNCHANGED <<task, cancel_requested, done, enqueued, task_pool_ops, polls,
                   pure_vars, gen_vars, orch_vars, video_vars, key_vars, att_vars>>

\* lines 1319-1320: queue.get() times out after a second: continue
GetTimeout ==
    /\ consumer = "waiting" /\ queue = <<>>
    /\ polls' = (polls + 1) % (MaxPolls + 1)
    /\ IF LoopGoesOn(done, queue)
       THEN consumer' = "waiting" /\ cancel_requested' = cancel_requested
       ELSE consumer' = "ended" /\ Finally
    /\ UNCHANGED <<task, queue, done, item, yielded, enqueued, task_pool_ops,
                   pure_vars, gen_vars, orch_vars, video_vars, key_vars, att_vars>>

\* lines 1317-1318, 1313: the consumer asks for the next item
Resume ==
    /\ consumer = "yielded"
    /\ IF item[1].type # "result" /\ LoopGoesOn(done, queue)
       THEN consumer' = "waiting" /\ cancel_requested' = cancel_requested
       ELSE consumer' = "ended" /\ Finally
    /\ UNCHANGED <<task, queue, done, item, yielded, enqueued, task_pool_ops, polls,
                   pure_vars, gen_vars, orch_vars, video_vars, key_vars, att_vars>>

\* the consumer closes the generator at the yield (GeneratorExit), or is cancelled while the
\* generator waits on the queue: the finally block runs
Close ==
    /\ consumer \in {"yielded", "waiting"}
    /\ consumer' = "closed" /\ Finally
    /\ UNCHANGED <<task, queue, done, item, yielded, enqueued, task_pool_ops, polls,
                   pure_vars, gen_vars, orch_vars, video_vars, key_vars, att_vars>>

NextStream ==
    \/ Callback \/ TaskNewAttempt \/ TaskPoolOp \/ TaskReturns \/ TaskRaises \/ TaskCancelled
    \/ Get \/ GetTimeout \/ Resume \/ Close
SpecStream == InitStream /\ [][NextStream]_vars
\* the event loop resumes a task that has a cancellation pending
SpecStreamFair == SpecStream /\ WF_vars(TaskCancelled)
\* and the consumer keeps pulling: its __anext__ is always called again, and wait_for
\* returns an item or times out
SpecStreamPull == SpecStreamFair /\ WF_vars(Get \/ GetTimeout \/ Resume)

----------------------------------------------------------------------------
(* SpecVideo: one attempt of _do_generate_video, in both implementations *)

Impersonates == <<"chrome136", "chrome133a", "chrome131">>
Statuses == {200, 401, 403, 429, 500}

\* a line of the chat stream, after the data: prefix is stripped and json.loads applied:
\*   "progress"     an object whose result.response.streamingVideoGenerationResponse is a
\*                  non-empty object with these progress, videoUrl, thumbnailImageUrl
\*   "token"        an object with result.response.token
\*   "not_json"     a line json.loads rejects
\*   "wrong_shape"  a JSON value without .get, or whose "result" has none (a list, null)
\*   "done"         the terminator line [DONE]
ProgressRecord(pr, url, thumb) ==
    [kind |-> "progress", progress |-> pr, videoUrl |-> url, thumbnailImageUrl |-> thumb]
OtherRecord(kind) ==
    [kind |-> kind, progress |-> 0, videoUrl |-> "", thumbnailImageUrl |-> ""]
VideoRecords ==
    {ProgressRecord(50, "", t) : t \in {"t1", "t2", "t3", "t4"}}
    \cup {ProgressRecord(100, "", "t1"), ProgressRecord(100, "v1", "t2"),
          ProgressRecord(100, "v2", "")}
    \cup {OtherRecord(k) : k \in {"token", "not_json", "wrong_shape", "done"}}

\* the dicts the video driver returns
VideoFailure(code, msg, previews) ==
    [success |-> FALSE, error_code |-> code, error |-> msg, image_preview_urls |-> previews,
     urls |-> <<>>, thumbnail_url |-> ""]
VideoSuccess(url, thumb) ==
    [success |-> TRUE, error_code |-> NoCode, error |-> "", image_preview_urls |-> <<>>,
     urls |-> <<url>>, thumbnail_url |-> thumb]

\* lines 467, 514: f"... failed ({status_code}) {body_text}", without the body
FailedText(what, status) == what \o " failed (" \o ToString(status) \o ")"
\* line 425: "(403)" in error_text
Mentions403(error) == error \in {FailedText("media_post", 403), FailedText("app_chat", 403)}

\* lines 502-506 and 1013-1025: the error_code of a chat response that is not 200
ChatErrorCode(status) ==
    IF status = 429 THEN "rate_limit_exceeded"
    ELSE IF status = 401 THEN "unauthorized"
    ELSE IF impl = "curl" THEN "" ELSE NoCode

\* lines 566-567, 1075-1076: the thumbnail is remembered once
WithThumb(previews, thumb) ==
    IF thumb # "" /\ \A i \in DOMAIN previews : previews[i] # thumb
    THEN Append(previews, thumb) ELSE previews

\* lines 569, 1078: progress >= 100 and video_url
Qualifies(rec) == rec.progress >= 100 /\ rec.videoUrl # ""

\* lines 586, 1108: preview_image_urls[:3]
FirstThree(previews) == SubSeq(previews, 1, IF Len(previews) < 3 THEN Len(previews) ELSE 3)

\* lines 580-586, 1103-1109
NotSupported(previews) ==
    VideoFailure("video_not_supported",
                 "Video progress/event tidak ditemukan dari app-chat stream",
                 FirstThree(previews))

\* lines 349-358: the video id in a url; "v2" stands for a url that holds none
_extract_video_id(video_url) == IF video_url = "v1" THEN "id1" ELSE ""

\* what the upscale request gives: "" when it raises, is not answered with 200 or carries
\* no hdMediaUrl (lines 384-390), or the hdMediaUrl
UpscaleAnswers == {"", "hd1"}

\* lines 360-390
_upscale_video_url(video_url, res, answer) ==
    IF res # "720p" THEN video_url
    ELSE IF _extract_video_id(video_url) = "" THEN video_url
    ELSE IF answer = "" THEN video_url ELSE answer

Resolutions == {"480p", "720p"}

\* _do_generate_video is entered: the curl flow first when curl_cffi is there (line 963)
InitVideo ==
    /\ curl_available \in BOOLEAN
    /\ impl = (IF curl_available THEN "curl" ELSE "aiohttp")
    /\ pc_video = "post" /\ profile = 1 /\ post_status = 0 /\ chat_status = 0
    /\ stream_log = <<>> /\ unterminated = FALSE /\ preview_image_urls = <<>>
    /\ final_video_url = "" /\ final_thumbnail_url = "" /\ result_video = <<>>
    /\ resolution \in Resolutions /\ jobs_created = 0
    /\ PureIdle /\ GenIdle /\ OrchIdle /\ StreamIdle /\ KeyIdle /\ AttIdle

\* a return of the implementation running: _sync_do_generate_video_via_curl_once returns to
\* its caller's loop, the aiohttp flow returns from _do_generate_video
ReturnsVideo(r) ==
    /\ result_video' = <<r>>
    /\ pc_video' = (IF impl = "curl" THEN "once_returned" ELSE "done")

\* an exception leaves the implementation running: the curl flow's is caught at line 983
RaisesVideo ==
    /\ result_video' = result_video
    /\ pc_video' = (IF impl = "curl" THEN "curl_raised" ELSE "raised")

\* lines 441-478 (curl) and 262-283, 991-997 (aiohttp): the media post is created
PostCreate ==
    /\ pc_video = "post"
    /\ \E st \in Statuses, has_id \in BOOLEAN :
         /\ post_status' = st
         /\ jobs_created' = jobs_created + (IF st = 200 /\ has_id THEN 1 ELSE 0)
         /\ IF st = 200 /\ has_id
            THEN pc_video' = "chat" /\ result_video' = result_video
            ELSE ReturnsVideo(
                   IF impl = "curl"
                   THEN VideoFailure("video_post_failed",
                                     IF st # 200 THEN FailedText("media_post", st)
                                     ELSE "Post ID tidak ditemukan", <<>>)
                   ELSE VideoFailure("video_post_failed", "Gagal membuat video post", <<>>))
    /\ UNCHANGED <<curl_available, resolution, impl, profile, chat_status, stream_log, unterminated,
                   preview_image_urls, final_video_url, final_thumbnail_url,
                   pure_vars, gen_vars, orch_vars, stream_vars, key_vars, att_vars>>

\* lines 480-517 (curl) and 1009-1032 (aiohttp): the app-chat request is answered
ChatOpen ==
    /\ pc_video = "chat"
    /\ \E st \in Statuses :
         /\ chat_status' = st
         /\ IF st = 200
            THEN pc_video' = "stream" /\ result_video' = result_video
            ELSE ReturnsVideo(
                   VideoFailure(ChatErrorCode(st),
                                IF impl = "curl" THEN FailedText("app_chat", st)
                                ELSE IF st = 429 THEN "Rate limit exceeded"
                                ELSE IF st = 401 THEN "Unauthorized"
                                ELSE FailedText("Video chat", st),
                                <<>>))
    /\ UNCHANGED <<curl_available, resolution, jobs_created, impl, profile, post_status, stream_log, unterminated,
                   preview_image_urls, final_video_url, final_thumbnail_url,
                   pure_vars, gen_vars, orch_vars, stream_vars, key_vars, att_vars>>

\* lines 542-587 and 1051-1109: one line is handled; at_end says that the stream has
\* nothing after it. The terminator is skipped like an empty line (lines 542, 1051) and the
\* loop goes on to the next line. Only the aiohttp flow asks for the upscaled url of the
\* record that qualifies (lines 1084-1090); the curl flow returns the url as it came
\* (lines 572-579).
AfterLine(rec, at_end) ==
    LET previews == IF rec.kind = "progress"
                    THEN WithThumb(preview_image_urls, rec.thumbnailImageUrl)
                    ELSE preview_image_urls
        final == rec.kind = "progress" /\ Qualifies(rec)
    IN /\ preview_image_urls' = (IF rec.kind = "wrong_shape" THEN preview_image_urls ELSE previews)
       /\ final_video_url' = (IF final THEN rec.videoUrl ELSE final_video_url)
       /\ final_thumbnail_url' = (IF final THEN rec.thumbnailImageUrl ELSE final_thumbnail_url)
       /\ IF rec.kind = "wrong_shape" THEN RaisesVideo
          ELSE IF final
               THEN \E answer \in UpscaleAnswers :
                      ReturnsVideo(VideoSuccess(
                          IF impl = "curl" THEN rec.videoUrl
                          ELSE _upscale_video_url(rec.videoUrl, resolution, answer),
                          rec.thumbnailImageUrl))
          ELSE IF at_end THEN ReturnsVideo(NotSupported(previews))
          ELSE pc_video' = "stream" /\ result_video' = result_video

\* lines 529-572 and 1040-1084: a newline-terminated line of the stream arrives
ReadLine ==
    /\ pc_video = "stream" /\ Len(stream_log) < MaxLines
    /\ \E rec \in VideoRecords :
         /\ stream_log' = Append(stream_log, rec)
         /\ AfterLine(rec, FALSE)
    /\ UNCHANGED <<curl_available, resolution, jobs_created, impl, profile, post_status, chat_status, unterminated,
                   pure_vars, gen_vars, orch_vars, stream_vars, key_vars, att_vars>>

\* the stream ends with a last line that has no newline after it: iter_lines gives it to the
\* curl flow (line 529); the aiohttp flow leaves it in buffer, which is looked at only
\* while it holds a newline (lines 1044-1045), and goes on to lines 1089-1109
ReadLastLine ==
    /\ pc_video = "stream" /\ Len(stream_log) < MaxLines
    /\ \E rec \in VideoRecords :
         /\ stream_log' = Append(stream_log, rec)
         /\ IF impl = "curl" THEN AfterLine(rec, TRUE)
            ELSE /\ ReturnsVideo(NotSupported(preview_image_urls))
                 /\ UNCHANGED <<preview_image_urls, final_video_url, final_thumbnail_url>>
    /\ unterminated' = TRUE
    /\ UNCHANGED <<curl_available, resolution, jobs_created, impl, profile, post_status, chat_status,
                   pure_vars, gen_vars, orch_vars, stream_vars, key_vars, att_vars>>

\* lines 574-587 and 1086-1109: the stream ends after a newline
EndOfStream ==
    /\ pc_video = "stream"
    /\ ReturnsVideo(NotSupported(preview_image_urls))
    /\ UNCHANGED <<curl_available, resolution, jobs_created, impl, profile, post_status, chat_status, stream_log,
                   unterminated, preview_image_urls, final_video_url, final_thumbnail_url,
                   pure_vars, gen_vars, orch_vars, stream_vars, key_vars, att_vars>>

\* the attempt starts over: from the media post, with nothing kept of the stream
StartOver(new_impl, new_profile) ==
    /\ pc_video' = "post" /\ impl' = new_impl /\ profile' = new_profile
    /\ post_status' = 0 /\ chat_status' = 0 /\ stream_log' = <<>> /\ unterminated' = FALSE
    /\ preview_image_urls' = <<>> /\ final_video_url' = "" /\ final_thumbnail_url' = ""

\* lines 408-427: the loop over impersonates in _sync_do_generate_video_via_curl, and the
\* return of its result by _do_generate_video (lines 977-982)
CurlWrapper ==
    /\ pc_video = "once_returned"
    /\ LET r == result_video[1]
       IN IF \/ r.success
             \/ (~ Mentions403(r.error) /\ r.error_code # "video_post_failed")
             \/ profile = Len(Impersonates)
          THEN /\ pc_video' = "done"
               /\ UNCHANGED <<impl, profile, post_status, chat_status, stream_log, unterminated,
                              preview_image_urls, final_video_url, final_thumbnail_url>>
          ELSE StartOver("curl", profile + 1)
    /\ UNCHANGED <<curl_available, resolution, jobs_created, result_video, pure_vars, gen_vars, orch_vars, stream_vars, key_vars, att_vars>>

\* a request of the curl flow raises (curl_requests.post, iter_lines)
CurlRaises ==
    /\ impl = "curl" /\ pc_video \in {"post", "chat", "stream"}
    /\ pc_video' = "curl_raised"
    /\ UNCHANGED <<curl_available, resolution, jobs_created, impl, profile, post_status, chat_status, stream_log,
                   unterminated, preview_image_urls, final_video_url, final_thumbnail_url,
                   result_video, pure_vars, gen_vars, orch_vars, stream_vars, key_vars, att_vars>>

\* lines 983-988: the exception of the curl flow is logged and the aiohttp flow runs
Fallback ==
    /\ pc_video = "curl_raised"
    /\ StartOver("aiohttp", profile)
    /\ UNCHANGED <<curl_available, resolution, jobs_created, result_video, pure_vars, gen_vars, orch_vars, stream_vars, key_vars, att_vars>>

\* lines 1111-1113: a request of the aiohttp flow raises aiohttp.ClientError
VideoClientError ==
    /\ impl = "aiohttp" /\ pc_video \in {"post", "chat", "stream"}
    /\ result_video' = <<VideoFailure(NoCode, "Koneksi gagal", <<>>)>>
    /\ pc_video' = "done"
    /\ UNCHANGED <<curl_available, resolution, jobs_created, impl, profile, post_status, chat_status, stream_log,
                   unterminated, preview_image_urls, final_video_url, final_thumbnail_url,
                   pure_vars, gen_vars, orch_vars, stream_vars, key_vars, att_vars>>

NextVideo ==
    \/ PostCreate \/ ChatOpen \/ ReadLine \/ ReadLastLine \/ EndOfStream
    \/ CurlWrapper \/ CurlRaises \/ Fallback \/ VideoClientError
SpecVideo == InitVideo /\ [][NextVideo]_vars

----------------------------------------------------------------------------
(* SpecKey: require_api_key (src/app/core/security.py) *)

\* str.lower(), on the letters that occur in the schemes below
LowerChar(ch) ==
    CASE ch = "B" -> "b" [] ch = "E" -> "e" [] ch = "A" -> "a" [] ch = "R" -> "r"
      [] ch = "S" -> "s" [] ch = "I" -> "i" [] ch = "C" -> "c" [] OTHER -> ch

NotLowered(s) == s

\* line 24: credentials.scheme.lower(); a string is the sequence of its characters
lower(s) == [i \in DOMAIN s |-> LowerChar(s[i])]

\* line 24: "bearer"
Bearer == <<"b", "e", "a", "r", "e", "r">>

\* raise HTTPException(status_code=401, detail=...) and return True
HTTPException(status_code, detail) ==
    [raised |-> TRUE, status_code |-> status_code, detail |-> detail]
ReturnTrue == [raised |-> FALSE, status_code |-> 0, detail |-> ""]

\* lines 14-31
require_api_key(key, creds) ==
    IF key = None \/ key = "" THEN ReturnTrue
    ELSE IF creds = <<>> THEN HTTPException(401, "Missing Authorization header")
    ELSE IF lower(creds[1].scheme) # Bearer
         THEN HTTPException(401, "Invalid Authorization format")
    ELSE IF creds[1].credentials # key THEN HTTPException(401, "Invalid API key")
    ELSE ReturnTrue

\* settings.API_KEY: not set, empty, or a key
ApiKeys == {None, "", "k1", "K1"}
Schemes ==
    {Bearer, <<"B", "e", "a", "r", "e", "r">>, <<"B", "E", "A", "R", "E", "R">>,
     <<"b", "e", "a", "r", "e", "R">>, <<"b", "a", "s", "i", "c">>, <<"B", "a", "s", "i", "c">>,
     <<"b", "e", "a", "r", "e", "r", " ">>, <<"b", "e", "a", "r">>, <<>>}
Tokens == {"", "k1", "K1", "k1 "}
\* what Security(bearer_scheme) may hand over: None or the parsed header
Credentials == {<<>>} \cup {<<[scheme |-> sc, credentials |-> tok]>> : sc \in Schemes, tok \in Tokens}

InitKey ==
    /\ api_key \in ApiKeys /\ credentials \in Credentials /\ key_ret = <<>>
    /\ PureIdle /\ GenIdle /\ OrchIdle /\ StreamIdle /\ VideoIdle /\ AttIdle

RequireApiKey ==
    /\ key_ret = <<>>
    /\ key_ret' = <<require_api_key(api_key, credentials)>>
    /\ UNCHANGED <<api_key, credentials, pure_vars, gen_vars, orch_vars, stream_vars,
                   video_vars, att_vars>>

NextKey == RequireApiKey
SpecKey == InitKey /\ [][NextKey]_vars

----------------------------------------------------------------------------
(* SpecAttempts: two attempts of _do_generate on the one client object     *)
(* (grok_client, line 1328): two attempts of one call, one after the       *)
(* other, or the attempts of two calls that run at the same time; the      *)
(* event loop interleaves them at their awaits                             *)

Attempts == {1, 2}
MaxHandled == 2     \* frames the attempts are sent, all in all
MaxClock == 20      \* the clock stops here

SlotOfClient(a) == 1

\* lines 797-802: progress, error_info, start_time, last_activity and
\* medium_received_time are locals of the call of _do_generate: each attempt has its own
Slot(a) == a

AttTargets == {1, 2}
AttImageEvents ==
    {[blob |-> Blob(len, TRUE), url |-> Url("images", ID_A, "jpg", "")] : len \in {30001, 100001}}

\* what an attempt handles: a TEXT frame with an image or an error event, a CLOSED frame,
\* the read timeout, the deadline at the while condition
AttEvent(kind, blob, url, code, t) ==
    [kind |-> kind, blob |-> blob, url |-> url, code |-> code, t |-> t]
AttFrames(t) ==
    {AttEvent("image", ev.blob, ev.url, "", t) : ev \in AttImageEvents}
    \cup {AttEvent("error", Blob(0, TRUE), EmptyUrl, "internal_error", t)}
    \cup {AttEvent("closed", Blob(0, TRUE), EmptyUrl, "", t)}

\* lines 798-802, with the attempt's position, its n and its result
NewFrame(target, t) ==
    [pc |-> "loop", n |-> target, images |-> <<>>, completed |-> 0, error_info |-> <<>>,
     start_time |-> t, last_activity |-> t, medium_received_time |-> None_time,
     read_since |-> t, result |-> <<>>]

\* the locals of lines 798-802
GenPart(F) ==
    [images |-> F.images, completed |-> F.completed, error_info |-> F.error_info,
     start_time |-> F.start_time, last_activity |-> F.last_activity,
     medium_received_time |-> F.medium_received_time]
Merge(g, c) ==
    [pc |-> c.pc, n |-> c.n, images |-> g.images, completed |-> g.completed,
     error_info |-> g.error_info, start_time |-> g.start_time,
     last_activity |-> g.last_activity, medium_received_time |-> g.medium_received_time,
     read_since |-> c.read_since, result |-> c.result]

FrameDone(F, r) == [F EXCEPT !.pc = "done", !.result = <<r>>]

\* lines 883-900
FrameAfterText(F, t) ==
    IF F.completed >= F.n THEN FrameDone(F, ExitResult(F.images, F.n, F.error_info))
    ELSE IF /\ F.medium_received_time # None_time /\ F.completed = 0
            /\ BlockedOnMessage(t - F.medium_received_time)
         THEN FrameDone(F, BlockedResult)
    ELSE F

\* lines 804-947: what handling e does to the locals, the position and the result
Step(F, e) ==
    LET G == [F EXCEPT !.read_since = e.t]
    IN CASE e.kind = "image" ->
              LET img == ImageProgress(e.blob, e.url)
                  med == IF img.stage = "medium" /\ F.medium_received_time = None_time
                         THEN e.t ELSE F.medium_received_time
                  stored == Replaces(F.images, img.image_id)
                  images == IF stored THEN StoreImage(F.images, img) ELSE F.images
                  completed == IF stored THEN CountFinal(images) ELSE F.completed
              IN FrameAfterText([G EXCEPT !.images = images, !.completed = completed,
                                          !.medium_received_time = med,
                                          !.last_activity = e.t], e.t)
         [] e.kind = "error" ->
              LET H == [G EXCEPT !.error_info = <<[error_code |-> e.code, error |-> "err_msg"]>>,
                                 !.last_activity = e.t]
              IN IF TerminalError(e.code) THEN FrameDone(H, Failure(e.code, "err_msg"))
                 ELSE FrameAfterText(H, e.t)
         [] e.kind = "timeout" ->
              IF /\ F.medium_received_time # None_time /\ F.completed = 0
                 /\ BlockedOnTimeout(e.t - F.medium_received_time)
              THEN FrameDone(G, BlockedResult)
              ELSE IF IdleComplete(F.completed, e.t - F.last_activity)
                   THEN FrameDone(G, ExitResult(F.images, F.n, F.error_info))
              ELSE G
         [] OTHER -> FrameDone(F, ExitResult(F.images, F.n, F.error_info))

NotStarted ==
    [pc |-> "idle", n |-> 0, read_since |-> 0, result |-> <<>>, started_at |-> 0,
     handled |-> <<>>]

InitAttempts ==
    /\ att_state = [a \in Attempts |-> GenPart(NewFrame(0, 0))]
    /\ att_ctl = [a \in Attempts |-> NotStarted]
    /\ clock = 0
    /\ PureIdle /\ GenIdle /\ OrchIdle /\ StreamIdle /\ VideoIdle /\ KeyIdle

\* the frame attempt a works on
Frame(a) == Merge(att_state[Slot(a)], att_ctl[a])

\* the frame is written back: the locals to where the attempt keeps them
Becomes(a, F, handled, started_at) ==
    /\ att_state' = [att_state EXCEPT ![Slot(a)] = GenPart(F)]
    /\ att_ctl' = [att_ctl EXCEPT ![a] =
                     [pc |-> F.pc, n |-> F.n, read_since |-> F.read_since,
                      result |-> F.result, started_at |-> started_at,
                      handled |-> handled]]

Received(a) == Len(SelectSeq(att_ctl[a].handled, LAMBDA e : e.kind \in {"image", "error", "closed"}))

\* lines 778-802: the attempt connects, sends its request and sets up its locals
AttStart(a) ==
    /\ att_ctl[a].pc = "idle"
    /\ \E target \in AttTargets : Becomes(a, NewFrame(target, clock), <<>>, clock)
    /\ UNCHANGED <<clock, pure_vars, gen_vars, orch_vars, stream_vars, video_vars, key_vars>>

AttHandles(a, e) ==
    Becomes(a, Step(Frame(a), e), Append(att_ctl[a].handled, e), att_ctl[a].started_at)

\* lines 806-904: a frame arrives before the read times out
AttRecv(a) ==
    /\ att_ctl[a].pc = "loop" /\ Received(1) + Received(2) < MaxHandled
    /\ clock - Frame(a).start_time < GENERATION_TIMEOUT
    /\ clock - att_ctl[a].read_since < RECEIVE_TIMEOUT
    /\ \E e \in AttFrames(clock) : AttHandles(a, e)
    /\ UNCHANGED <<clock, pure_vars, gen_vars, orch_vars, stream_vars, video_vars, key_vars>>

\* lines 906-925: the read times out
AttReadTimeout(a) ==
    /\ att_ctl[a].pc = "loop"
    /\ clock - Frame(a).start_time < GENERATION_TIMEOUT
    /\ clock - att_ctl[a].read_since = RECEIVE_TIMEOUT
    /\ AttHandles(a, AttEvent("timeout", Blob(0, TRUE), EmptyUrl, "", clock))
    /\ UNCHANGED <<clock, pure_vars, gen_vars, orch_vars, stream_vars, video_vars, key_vars>>

\* line 804: the deadline has passed when the while condition is evaluated
AttDeadlineExit(a) ==
    /\ att_ctl[a].pc = "loop"
    /\ clock - Frame(a).start_time >= GENERATION_TIMEOUT
    /\ AttHandles(a, AttEvent("deadline", Blob(0, TRUE), EmptyUrl, "", clock))
    /\ UNCHANGED <<clock, pure_vars, gen_vars, orch_vars, stream_vars, video_vars, key_vars>>

\* a read timeout's worth of time passes while every attempt that runs waits in its read
AttTick ==
    /\ clock + RECEIVE_TIMEOUT <= MaxClock
    /\ \A a \in Attempts :
         att_ctl[a].pc = "loop" =>
             /\ clock - att_ctl[a].read_since < RECEIVE_TIMEOUT
             /\ clock - Frame(a).start_time < GENERATION_TIMEOUT
    /\ clock' = clock + RECEIVE_TIMEOUT
    /\ UNCHANGED <<att_state, att_ctl, pure_vars, gen_vars, orch_vars, stream_vars,
                   video_vars, key_vars>>

NextAttempts ==
    \/ \E a \in Attempts :
         AttStart(a) \/ AttRecv(a) \/ AttReadTimeout(a) \/ AttDeadlineExit(a)
    \/ AttTick
SpecAttempts == InitAttempts /\ [][NextAttempts]_vars

----------------------------------------------------------------------------
(* The claims *)

Min(a, b) == IF a < b THEN a ELSE b
Latest(h) == h[Len(h)]

\* C1: in one attempt of _do_generate, once the unit stored for an id is final, no later
\* event replaces it: the stored unit stays as it is (same stage, blob and size) in every
\* later state of the attempt.
C1_FinalNeverReplaced ==
    [][\A i \in DOMAIN progress_images :
          progress_images[i].is_final =>
              /\ i \in DOMAIN progress_images'
              /\ progress_images'[i] = progress_images[i]]_vars

\* a final unit is stored and a later image event for its id was left unstored
C1_Witness ==
    /\ not_stored > 0
    /\ \E i \in DOMAIN progress_images : progress_images[i].is_final

\* C2: the stage of an image event is a function of its url and blob size: final iff the
\* url ends in .jpg and the size is above 100000, else medium iff the size is above 30000,
\* else preview; 100000 with .jpg is medium, 30000 is preview, a url that does not end in
\* .jpg is never final, and is_final holds iff the stage is final.
C2_Classification ==
    (ret # <<>> /\ ret[1] = "unit") =>
        LET u == ret[2]
            size == arg_blob.len
            jpg == arg_url.ext = "jpg" /\ arg_url.tail = ""
        IN /\ u.blob_size = size
           /\ (u.stage = "final") <=> (jpg /\ size > 100000)
           /\ (u.stage = "medium") <=> (~ (jpg /\ size > 100000) /\ size > 30000)
           /\ (u.stage = "preview") <=> (~ (jpg /\ size > 100000) /\ size <= 30000)
           /\ (jpg /\ size = 100000) => u.stage = "medium"
           /\ (size = 30000) => u.stage = "preview"
           /\ (~ jpg) => u.stage # "final"
           /\ u.is_final <=> (u.stage = "final")

\* a .jpg event of exactly 100000 bytes has been classified, as medium
C2_Witness ==
    /\ ret # <<>> /\ ret[1] = "unit"
    /\ arg_url.ext = "jpg" /\ arg_url.tail = "" /\ arg_blob.len = 100000
    /\ ret[2].stage = "medium"

\* C3: with a medium-stage event seen, no final unit, and nothing but read timeouts since
\* the last frame (received at time L), the attempt is no longer reading once more than
\* 10 seconds have passed since L, and as long as the attempt's deadline has not passed it
\* has ended by then with the blocked failure, at L + 16 at the latest.
C3_BlockedWithin16 ==
    LET L == now - RECEIVE_TIMEOUT * idle_timeouts
    IN (/\ medium_received_time # None_time
        /\ progress_completed = 0
        /\ idle_timeouts >= 1
        /\ now - start_time < GENERATION_TIMEOUT)
       => /\ pc_gen \in {"loop", "done"}
          /\ pc_gen = "loop" => now - L <= 10
          /\ pc_gen = "done" => (result_gen = <<BlockedResult>> /\ now <= L + 16)

\* the first medium event was the last frame, three read timeouts followed, and the
\* attempt ended blocked
C3_Witness ==
    /\ pc_gen = "done" /\ result_gen = <<BlockedResult>>
    /\ medium_received_time = last_activity
    /\ idle_timeouts = 3 /\ now = medium_received_time + 15
    /\ frames = 1

KeptIds(r) == {r.urls[i].image_id : i \in DOMAIN r.urls}
Savable(images) == {i \in DOMAIN images : images[i].blob.decodes}

\* C4 as stated: a success result holds at most n urls, of distinct ids, count being their
\* number; the kept units are the first n in descending order of (is_final, size), so no
\* dropped unit outranks a kept one; n = 4 with 6 distinct final units gives 4 urls.
C4_KeepsFirstN ==
    (ret # <<>> /\ ret[1].success) =>
        LET r == ret[1]
        IN /\ Len(r.urls) <= arg_n
           /\ r.count = Len(r.urls)
           /\ \A i, j \in DOMAIN r.urls : i # j => r.urls[i].image_id # r.urls[j].image_id
           /\ Len(r.urls) = Min(arg_n, Len(arg_images))
           /\ \A i, j \in DOMAIN arg_images :
                 (arg_images[i].image_id \in KeptIds(r) /\ arg_images[j].image_id \notin KeptIds(r))
                     => ~ Outranks(arg_images[j], arg_images[i])
           /\ (arg_n = 4 /\ Len(arg_images) = 6 /\ CountFinal(arg_images) = 6)
                 => Len(r.urls) = 4

\* C4 as amended: the same, over the units whose payload could be saved: the kept units
\* are the first n of those in descending order of (is_final, size), and no dropped unit
\* that could be saved outranks a kept one.
C4_KeepsFirstNSavable ==
    (ret # <<>> /\ ret[1].success) =>
        LET r == ret[1]
        IN /\ Len(r.urls) <= arg_n
           /\ r.count = Len(r.urls)
           /\ \A i, j \in DOMAIN r.urls : i # j => r.urls[i].image_id # r.urls[j].image_id
           /\ Len(r.urls) = Min(arg_n, Cardinality(Savable(arg_images)))
           /\ \A i \in DOMAIN r.urls : \E j \in Savable(arg_images) :
                 /\ arg_images[j].image_id = r.urls[i].image_id
                 /\ r.urls[i].ext = (IF arg_images[j].is_final THEN "jpg" ELSE "png")
           /\ \A i \in DOMAIN arg_images, j \in Savable(arg_images) :
                 (arg_images[i].image_id \in KeptIds(r) /\ arg_images[j].image_id \notin KeptIds(r))
                     => ~ Outranks(arg_images[j], arg_images[i])
           /\ \A i, j \in DOMAIN r.urls : i < j =>
                 \A a, b \in DOMAIN arg_images :
                     (arg_images[a].image_id = r.urls[i].image_id
                      /\ arg_images[b].image_id = r.urls[j].image_id)
                         => ~ Outranks(arg_images[b], arg_images[a])
           /\ (arg_n = 4 /\ Len(arg_images) = 6 /\ CountFinal(arg_images) = 6
               /\ Cardinality(Savable(arg_images)) = 6)
                 => Len(r.urls) = 4

\* n = 4, six distinct final units that all save: four urls, all of final units
C4_Witness ==
    /\ ret # <<>> /\ ret[1].success
    /\ arg_n = 4 /\ Len(arg_images) = 6 /\ CountFinal(arg_images) = 6
    /\ Cardinality(Savable(arg_images)) = 6
    /\ Len(ret[1].urls) = 4
    /\ \A i \in DOMAIN ret[1].urls : ret[1].urls[i].ext = "jpg"

\* C5: with a pinned credential, generate and generate_video never call get_next_sso,
\* start at most one attempt, have returned once that attempt's outcome is handled, and
\* return the dict the driver returned unchanged (or, when it raised, the failure built
\* from the exception).
C5_PinnedOneAttempt ==
    (flow # "idle" /\ sso # None) =>
        /\ acquired = 0 /\ ~ Logged("get_next_sso")
        /\ Len(hist) <= 1
        /\ (Len(hist) = 1 /\ pc \notin {"result", "except"}) => pc = "returned"
        /\ (pc = "returned" /\ max_retries >= 1) => Len(hist) = 1
        /\ (pc = "returned" /\ attempt_result # <<>>) => returned = attempt_result
        /\ (pc = "returned" /\ attempt_exc # <<>>) => returned = <<ExceptionResult(attempt_exc[1])>>

\* pinned, attempts to spare, the one attempt ended rate_limit_exceeded and came back as is
C5_Witness ==
    /\ sso # None /\ max_retries >= 2 /\ pc = "returned"
    /\ hist = <<"rate_limit_exceeded">>
    /\ returned = <<Failure("rate_limit_exceeded", "err_msg")>>
    /\ current_sso = sso

\* C6: in generate without a pinned credential and with max_retries > 3, three attempts in
\* a row ending blocked are the last attempts of the call: once the third is handled the
\* call has returned the terminal blocked failure and no fourth attempt has started.
C6_ThreeBlockedTerminal ==
    (flow = "image" /\ sso = None /\ max_retries > 3) =>
        \A k \in 1..(Len(hist) - 2) :
            (hist[k] = "blocked" /\ hist[k + 1] = "blocked" /\ hist[k + 2] = "blocked") =>
                /\ Len(hist) = k + 2
                /\ pc # "result" => (pc = "returned" /\ returned = <<TerminalBlocked>>)

\* blocked three times in a row with two attempts left: the terminal failure came back
C6_Witness ==
    /\ flow = "image" /\ sso = None /\ max_retries = 5
    /\ hist = <<"blocked", "blocked", "blocked">>
    /\ pc = "returned" /\ returned = <<TerminalBlocked>> /\ attempt = 2

\* the failure the latest attempt produced
LatestFailure ==
    IF attempt_result # <<>> THEN attempt_result[1] ELSE ExceptionResult(attempt_exc[1])

\* C7: when all max_retries attempts are used up without a success, the value returned is
\* the failure of the most recent attempt, whatever its kind; the generic failure is
\* returned only if no attempt produced a failure.
C7_ExhaustedReturnsLatest ==
    (flow # "idle" /\ pc = "returned" /\ attempt >= max_retries) =>
        returned = <<IF hist = <<>> THEN AllRetriesFailed ELSE LatestFailure>>

\* C8: a transport error in an attempt, with no pinned credential and attempts remaining,
\* is handled as rotation-worthy: the credential is marked failed, the error is kept as
\* the last failure, and the call goes on to a further attempt instead of returning.
C8_TransportErrorRotates ==
    (/\ flow # "idle" /\ sso = None
     /\ hist # <<>> /\ Latest(hist) = "client_error"
     /\ Len(hist) < max_retries
     /\ pc \notin {"result", "except"}) =>
        /\ pc = "returned" => returned = <<NoSsoResult>>
        /\ last_error # <<>> /\ ~ last_error[1].success
        /\ (pc = "loop" /\ Len(hist) = attempt) => Logged("mark_failed")

\* C9: every call ends by returning a result dict; no exception of a driver, of the age
\* verification or of a pool operation leaves generate or generate_video.
C9_NoExceptionEscapes ==
    /\ pc # "raised"
    /\ pc = "returned" => (returned # <<>> /\ returned[1].success \in BOOLEAN)

\* what the claim expects of an exit without a final unit
ExpectedWithoutFinal ==
    IF error_info # <<>> THEN Failure(error_info[1].error_code, error_info[1].error)
    ELSE IF \E i \in DOMAIN progress_images : progress_images[i].stage = "medium"
         THEN BlockedResult
    ELSE NoDataResult

\* C10: when the read loop is left at the deadline or at a closed channel with no final
\* unit tracked, the attempt returns a failure: the recorded protocol error, else blocked
\* if a unit is at medium, else the no-data failure; never a success.
C10_NoFinalIsFailure ==
    [][((RecvClosed \/ DeadlineExit) /\ CountFinal(progress_images) = 0)
          => result_gen' = <<ExpectedWithoutFinal>>]_vars

FinalIds(images) == {images[i].image_id : i \in {j \in DOMAIN images : images[j].is_final}}

\* C11: when a read timeout finds at least one final unit and more than 10 seconds without
\* a text frame, the attempt ends there as a success whose urls are exactly the final
\* units collected (at most n of them): no preview or medium unit is among them.
\* Stated for the attempts all of whose payloads can be saved.
C11_IdleCompletesWithFinalsOnly ==
    [][(/\ ReadTimeout /\ progress_completed > 0 /\ now' - last_activity > 10
        /\ Savable(progress_images) = DOMAIN progress_images)
          => /\ pc_gen' = "done"
             /\ result_gen'[1].success
             /\ Len(result_gen'[1].urls) = Min(n, CountFinal(progress_images))
             /\ KeptIds(result_gen'[1]) \subseteq FinalIds(progress_images)]_vars

\* C12: without a pinned credential, handling an attempt that ended rate_limit_exceeded or
\* unauthorized calls mark_failed exactly once, on that attempt's credential, and goes on
\* to the next loop iteration instead of returning; and every loop iteration that still
\* has an attempt to make starts with a fresh get_next_sso.
C12_RotationMarksAndReacquires ==
    [][/\ (/\ flow # "idle" /\ sso = None /\ pc = "result"
           /\ ~ attempt_result[1].success
           /\ attempt_result[1].error_code \in {"rate_limit_exceeded", "unauthorized"})
          => /\ pool_log' = pool_log \o <<Call("mark_failed", current_sso)>>
             /\ ~ Logged("mark_failed")
             /\ pc' = "loop" /\ attempt' = attempt + 1 /\ returned' = <<>>
       /\ (flow # "idle" /\ sso = None /\ pc = "loop" /\ attempt < max_retries)
          => /\ acquired' = acquired + 1
             /\ pool_log' = <<Call("get_next_sso", None)>>]_vars

\* the first attempt ended unauthorized, its credential was marked failed, and the second
\* attempt runs on a freshly acquired credential
C12_Witness ==
    /\ sso = None /\ hist = <<"unauthorized">> /\ attempt = 1 /\ pc = "age"
    /\ acquired = 2 /\ pool_log = <<Call("get_next_sso", None)>>
    /\ last_error = <<Failure("unauthorized", IF flow = "image" THEN "err_msg" ELSE "Unauthorized")>>

\* C13: handling a failure whose error_code is none of blocked, rate_limit_exceeded,
\* unauthorized (another code, or none) returns that failure unchanged on that attempt and
\* performs no pool operation: no mark_failed, mark_success, record_usage or acquire.
C13_OtherFailureReturnsUntouched ==
    [][(/\ flow # "idle" /\ pc = "result"
        /\ ~ attempt_result[1].success
        /\ attempt_result[1].error_code \notin {"blocked", "rate_limit_exceeded", "unauthorized"})
          => /\ pc' = "returned" /\ returned' = attempt_result
             /\ pool_log' = pool_log /\ acquired' = acquired /\ attempt' = attempt
             /\ ~ Logged("mark_failed") /\ ~ Logged("mark_success")
             /\ ~ Logged("record_usage")]_vars

\* unpinned video call with attempts to spare: the first attempt ended video_post_failed
\* and came back as is, the pool having seen only the acquire and the age flag read
C13_Witness ==
    /\ flow = "video" /\ sso = None /\ max_retries >= 2 /\ pc = "returned"
    /\ hist = <<"video_post_failed">> /\ acquired = 1
    /\ returned = <<Failure("video_post_failed", "Gagal membuat video post")>>
    /\ ~ Logged("mark_failed") /\ ~ Logged("mark_success") /\ ~ Logged("record_usage")

\* C14: a call returns a success exactly when an attempt succeeded; handling that attempt
\* calls mark_success once, then record_usage once when the pool offers it, both on the
\* attempt's credential, never mark_failed, and returns the attempt's result with no
\* further attempt or acquire; mark_success is called in no other step, so never in a
\* call that returns a failure.
C14_SuccessIffAttemptSucceeded ==
    [][/\ (flow # "idle" /\ pc = "result" /\ attempt_result[1].success)
          => /\ pool_log' = pool_log \o <<Call("mark_success", current_sso)>>
                            \o (IF pool_has_usage
                                THEN <<Call("record_usage", current_sso)>> ELSE <<>>)
             /\ ~ Logged("mark_success") /\ ~ Logged("record_usage") /\ ~ Logged("mark_failed")
             /\ pc' = "returned" /\ returned' = attempt_result
             /\ acquired' = acquired /\ attempt' = attempt /\ hist' = hist
       /\ (flow # "idle" /\ pc # "returned" /\ pc' = "returned" /\ returned'[1].success)
          => (pc = "result" /\ attempt_result[1].success)
       /\ (flow # "idle" /\ pool_log' # pool_log
           /\ \E i \in DOMAIN pool_log' : pool_log'[i].op \in {"mark_success", "record_usage"})
          => (pc' = "returned" /\ returned'[1].success)
       /\ (flow # "idle" /\ pc = "returned")
          => (pc' = "returned" /\ returned' = returned /\ acquired' = acquired /\ hist' = hist)]_vars

\* the second attempt succeeded after a rate-limited first one: its credential got
\* mark_success and record_usage once each, and the success came back
C14_Witness ==
    /\ sso = None /\ pool_has_usage /\ max_retries >= 3 /\ pc = "returned"
    /\ hist = <<"rate_limit_exceeded", "success">> /\ attempt = 1 /\ acquired = 2
    /\ returned = attempt_result /\ returned[1].success
    /\ CountLogged("mark_success") = 1 /\ CountLogged("record_usage") = 1
    /\ ~ Logged("mark_failed")

\* C15: what generate_stream yields is what the task enqueued, in that order, nothing lost
\* or repeated; a result item is only ever the last item yielded; and when the consumer
\* has read the stream to its end it has received progress items followed by exactly one
\* result item, which carries the value generate returned.
C15_StreamEndsWithOneResult ==
    (task # "idle") =>
        /\ enqueued = yielded \o queue
        /\ \A i \in DOMAIN yielded : yielded[i].type = "result" => i = Len(yielded)
        /\ consumer = "ended" =>
              /\ yielded # <<>> /\ yielded = enqueued
              /\ yielded[Len(yielded)] = ResultItem(returned[1])
              /\ \A i \in 1..(Len(yielded) - 1) : yielded[i].type = "progress"

\* the stream was read to its end: two progress items, then the result
C15_Witness ==
    /\ consumer = "ended" /\ task = "finished" /\ Len(yielded) = 3
    /\ yielded[1].type = "progress" /\ yielded[2].type = "progress"
    /\ yielded[3] = ResultItem(returned[1]) /\ queue = <<>>

\* C16: when the consumer closes the generator while the task is still running, the task
\* is cancelled; from the cancellation on nothing is put on the queue and the task
\* performs no pool operation, and the task ends (cancelled).
C16_CloseCancelsTask ==
    /\ [][/\ (Close /\ task = "running") => cancel_requested'
          /\ cancel_requested =>
                /\ enqueued' = enqueued /\ queue' = queue
                /\ task_pool_ops' = task_pool_ops
                /\ task' \in {task, "cancelled"}]_vars
    /\ (cancel_requested ~> task = "cancelled")

\* closed after one progress item, before any result: the task ended cancelled with
\* nothing further enqueued
C16_Witness ==
    /\ consumer = "closed" /\ cancel_requested /\ task = "cancelled"
    /\ Len(yielded) = 1 /\ yielded[1].type = "progress"
    /\ \A i \in DOMAIN enqueued : enqueued[i].type = "progress"

\* C17: a malformed or unroutable inbound record is dropped without effect: receiving it
\* does not end the attempt, does not raise, and leaves the tracked units, the recorded
\* error and the result as they were.  Stated here for the image driver.
C17_MalformedRecordDropped ==
    [][(RecvMalformed \/ RecvUnroutable)
          => /\ pc_gen' = "loop"
             /\ progress_images' = progress_images /\ progress_completed' = progress_completed
             /\ error_info' = error_info /\ result_gen' = result_gen]_vars

\* C18: an error event with err_code rate_limit_exceeded ends the image attempt at that
\* event with {success: false, error_code: rate_limit_exceeded, error: err_msg}, whatever
\* units were collected; once the attempt has ended no further frame is read.
C18_RateLimitEndsAttempt ==
    [][/\ (RecvError /\ error_info'[1].error_code = "rate_limit_exceeded")
          => /\ pc_gen' = "done"
             /\ result_gen' = <<Failure("rate_limit_exceeded", error_info'[1].error)>>
             /\ progress_images' = progress_images
       /\ (pc_gen = "done") => (frames' = frames /\ result_gen' = result_gen /\ pc_gen' = "done")]_vars

\* a final unit was collected, then the rate limit event ended the attempt with frames
\* still to come
C18_Witness ==
    /\ pc_gen = "done" /\ result_gen = <<Failure("rate_limit_exceeded", "err_msg")>>
    /\ CountFinal(progress_images) = 1 /\ n = 2 /\ frames = 2

\* the records of a stream that count as completion: progress >= 100 with a videoUrl
QualifyingAt(log) ==
    {i \in DOMAIN log : /\ log[i].kind = "progress"
                        /\ log[i].progress >= 100 /\ log[i].videoUrl # ""}

\* the distinct thumbnail urls of the progress records of a stream, in order of first
\* appearance
RECURSIVE ThumbsOf(_)
ThumbsOf(log) ==
    IF log = <<>> THEN <<>>
    ELSE LET before == ThumbsOf(SubSeq(log, 1, Len(log) - 1))
             rec == log[Len(log)]
         IN IF /\ rec.kind = "progress" /\ rec.thumbnailImageUrl # ""
               /\ \A i \in DOMAIN before : before[i] # rec.thumbnailImageUrl
            THEN Append(before, rec.thumbnailImageUrl) ELSE before

\* the attempt ended by what its chat stream delivered
EndedByStream ==
    /\ pc_video = "done" /\ chat_status = 200
    /\ result_video[1].error # "Koneksi gagal"

\* C19: in both implementations an attempt that consumed its chat stream succeeds iff the
\* stream holds a progress record with progress >= 100 and a videoUrl; the first such
\* record is the last one read and gives the result's url; without one the result is the
\* video_not_supported failure with the first 3 distinct thumbnail urls of the stream.
C19_VideoSuccessIffQualifying ==
    EndedByStream =>
        LET r == result_video[1]
            q == QualifyingAt(stream_log)
        IN /\ r.success <=> (q # {})
           /\ r.success =>
                 /\ q = {Len(stream_log)}
                 /\ r.urls \in {<<_upscale_video_url(stream_log[Len(stream_log)].videoUrl,
                                                     resolution, answer)>> :
                                  answer \in UpscaleAnswers}
           /\ (~ r.success) =>
                 /\ r.error_code = "video_not_supported"
                 /\ Len(r.image_preview_urls) <= 3
                 /\ r.image_preview_urls
                      = SubSeq(ThumbsOf(stream_log), 1, Min(3, Len(ThumbsOf(stream_log))))

\* C20: in both implementations a response status 429 of either request gives error_code
\* rate_limit_exceeded, 401 gives unauthorized, and any other non-success status of the
\* media post gives video_post_failed.
C20_StatusClassification ==
    (pc_video = "done" /\ result_video[1].error # "Koneksi gagal") =>
        LET r == result_video[1]
            status == IF post_status # 200 THEN post_status ELSE chat_status
        IN /\ status = 429 => r.error_code = "rate_limit_exceeded"
           /\ status = 401 => r.error_code = "unauthorized"
           /\ (post_status \notin {0, 200, 401, 429}) => r.error_code = "video_post_failed"

\* C21: a call of generate or generate_video starts at most max_retries attempts, each at
\* a loop index below max_retries, and terminates: it returns a success, a terminal
\* failure or the failure of exhaustion.
C21_BoundedAttemptsAndTermination ==
    /\ [](flow # "idle" => (Len(hist) <= max_retries /\ Len(hist) <= attempt + 1))
    /\ [][(flow # "idle" /\ pc = "loop" /\ pc' = "age") => attempt < max_retries]_vars
    /\ [](pc = "returned" =>
            (/\ returned # <<>>
             /\ \/ returned[1].success
                \/ returned[1] = LastErrorOr(last_error)
                \/ returned = attempt_result
                \/ returned[1] \in {TerminalBlocked, NoSsoResult}
                \/ (attempt_exc # <<>> /\ returned[1] = ExceptionResult(attempt_exc[1]))))
    /\ <>(pc = "returned")

\* all five attempts of an unpinned call were used, none succeeded, and the call returned
\* the failure kept from them
C21_Witness ==
    /\ sso = None /\ max_retries = MaxRetries /\ Len(hist) = MaxRetries
    /\ attempt = max_retries /\ pc = "returned"
    /\ returned = last_error /\ ~ returned[1].success

\* the pool operations and side calls a step added to the log
Added == SubSeq(pool_log', Len(pool_log) + 1, Len(pool_log'))
AddedOps(op) == {i \in DOMAIN Added : Added[i].op = op}

\* C22: before each attempt the age flag of the selected credential is read; _verify_age
\* is called at most once, and only when the flag read is unset (0); set_age_verified is
\* called only when that call succeeded; and whether it succeeded, failed or was skipped,
\* the attempt that follows is made on that same credential.
C22_AgeVerificationBestEffort ==
    /\ [][(flow # "idle" /\ pc = "age") =>
            /\ Added[1].op = "get_age_verified" /\ Added[1].ret \in {0, 1}
            /\ Cardinality(AddedOps("_verify_age")) <= 1
            /\ AddedOps("_verify_age") # {} <=> Added[1].ret = 0
            /\ AddedOps("set_age_verified") # {}
                  <=> \E i \in AddedOps("_verify_age") : Added[i].ret
            /\ \A i \in DOMAIN Added : Added[i].sso = current_sso
            /\ pc' = "try" /\ current_sso' = current_sso]_vars
    /\ [][(flow # "idle" /\ pc = "try") =>
            /\ Added = <<Call("driver", current_sso)>>
            /\ pc' \in {"result", "except"} /\ current_sso' = current_sso]_vars
    /\ [][(flow # "idle" /\ pc # "age") =>
            (AddedOps("_verify_age") = {} /\ AddedOps("set_age_verified") = {}
             /\ AddedOps("get_age_verified") = {})]_vars
    /\ [](CountLogged("_verify_age") <= 1 /\ CountLogged("get_age_verified") <= 1)

\* the flag was unset, the verification failed, the flag was left alone, and the attempt
\* ran on the same credential and succeeded
C22_Witness ==
    /\ flow # "idle" /\ pc = "result" /\ attempt_result[1].success
    /\ pool_log = <<Call("get_next_sso", None), Answer("get_age_verified", current_sso, 0),
                    Answer("_verify_age", current_sso, FALSE), Call("driver", current_sso)>>

\* preview < medium < final
StageRank(stage) == CASE stage = "preview" -> 1 [] stage = "medium" -> 2 [] stage = "final" -> 3

\* C23: within one attempt the stage stored for a unit id never decreases in the order
\* preview < medium < final, whatever events arrive: a unit stored at medium is not
\* replaced by a later preview-stage event for the same id.
C23_StoredStageNeverDecreases ==
    [][\A i \in DOMAIN progress_images :
          /\ i \in DOMAIN progress_images'
          /\ progress_images'[i].image_id = progress_images[i].image_id
          /\ StageRank(progress_images'[i].stage) >= StageRank(progress_images[i].stage)]_vars

\* the step handled a text event (lines 808-900)
TextStep == RecvImage \/ RecvIgnoredText \/ RecvError
\* the step ended the attempt with the blocked failure
EndsBlocked == pc_gen' = "done" /\ result_gen' = <<BlockedResult>>
\* a medium-stage event was seen and the time since the first one, at the step's end
SinceMedium == now' - medium_received_time'

\* C24: inside the read loop the blocked failure is returned only with a medium-stage
\* event seen, no final unit, and strictly more than 15 seconds since the first medium
\* event when checked after a text event, strictly more than 10 when checked after a read
\* timeout; at exactly 15 (resp. 10) seconds or less the attempt goes on reading.  The
\* steps that leave the loop by the target count are not steps of the stall check.
C24_BlockedOnlyPastWindow ==
    [][/\ (pc_gen = "loop" /\ pc_gen' = "done" /\ progress_completed' < n /\ TextStep)
          => /\ EndsBlocked => (/\ medium_received_time' # None_time
                                /\ progress_completed' = 0 /\ CountFinal(progress_images') = 0
                                /\ SinceMedium > 15)
             /\ (medium_received_time' = None_time \/ SinceMedium <= 15)
                   => result_gen'[1].error_code = "rate_limit_exceeded"
       /\ (pc_gen = "loop" /\ idle_timeouts' = idle_timeouts + 1)
          => /\ now' = now + 5
             /\ EndsBlocked => (/\ medium_received_time' # None_time
                                /\ progress_completed' = 0 /\ CountFinal(progress_images') = 0
                                /\ SinceMedium > 10)
             /\ (/\ progress_completed' = 0
                 /\ (medium_received_time' = None_time \/ SinceMedium <= 10))
                   => pc_gen' = "loop"]_vars

\* a text event was handled exactly 15 seconds after the first medium event, with no
\* final unit, and the attempt is still reading
C24_Witness ==
    /\ pc_gen = "loop" /\ medium_received_time # None_time /\ progress_completed = 0
    /\ last_activity = now /\ idle_timeouts = 0 /\ frames >= 2
    /\ now - medium_received_time = 15 /\ n > 0

\* the step left the read loop by a break or by the while condition, so that
\* _save_final_images runs (lines 886, 904, 924, 804)
LeftByBreak ==
    /\ pc_gen = "loop" /\ pc_gen' = "done"
    /\ \/ TextStep /\ progress_completed' >= n
       \/ ReadTimeout /\ progress_completed > 0
       \/ DeadlineExit \/ RecvClosed
OtherErrorRecorded == error_info # <<>> /\ error_info[1].error_code # "rate_limit_exceeded"

\* C25: an error event whose code is not rate_limit_exceeded is recorded and does not end
\* the read loop: at that event the attempt ends only if the target count is reached or
\* the stall is detected; and when the loop is left afterwards and units are saved, the
\* attempt returns a success that does not report the recorded error.
C25_OtherErrorRecordedNotTerminal ==
    [][/\ (pc_gen = "loop" /\ frames' = frames + 1 /\ OtherErrorRecorded' /\ RecvError)
          => /\ error_info' # <<>> /\ error_info'[1].error = "err_msg"
             /\ progress_images' = progress_images
             /\ progress_completed' = progress_completed
             /\ pc_gen' \in {"loop", "done"}
             /\ pc_gen' = "done" =>
                   \/ progress_completed >= n
                   \/ /\ result_gen' = <<BlockedResult>> /\ progress_completed = 0
                      /\ medium_received_time # None_time
                      /\ now' - medium_received_time > 15
       /\ (/\ pc_gen = "loop" /\ pc_gen' = "done" /\ OtherErrorRecorded' /\ LeftByBreak
           /\ _save_final_images(progress_images', n) # <<>>)
          => /\ result_gen'[1].success
             /\ result_gen'[1].error_code = NoCode /\ result_gen'[1].error = ""
             /\ result_gen'[1].count = Len(_save_final_images(progress_images', n))]_vars

\* an internal_error event was recorded, a final unit arrived after it, and the attempt
\* returned the success
C25_Witness ==
    /\ pc_gen = "done" /\ OtherErrorRecorded /\ n = 1 /\ frames = 2
    /\ progress_completed = 1 /\ result_gen[1].success /\ result_gen[1].count = 1

\* C26: in generate, handling a blocked attempt increments the blocked counter; when the
\* counter thereby reaches the cap (3) the call returns the terminal blocked failure
\* without calling mark_failed; below the cap mark_failed is called on the credential,
\* and the call goes on to the next attempt, or returns the attempt's result when pinned.
C26_NoMarkFailedAtCap ==
    [][(/\ flow = "image" /\ pc = "result" /\ ~ attempt_result[1].success
        /\ attempt_result[1].error_code = "blocked")
          => /\ blocked_retries' = blocked_retries + 1
             /\ IF blocked_retries' >= 3
                THEN /\ pc' = "returned" /\ returned' = <<TerminalBlocked>>
                     /\ pool_log' = pool_log
                ELSE /\ pool_log' = pool_log \o <<Call("mark_failed", current_sso)>>
                     /\ IF sso # None
                        THEN pc' = "returned" /\ returned' = attempt_result
                        ELSE pc' = "loop" /\ attempt' = attempt + 1]_vars

\* C27: generate returns the terminal blocked failure only when its three most recent
\* attempts all ended blocked: an attempt that ended otherwise (rate_limit_exceeded,
\* unauthorized, a raised error) between blocked attempts resets the count, so blocked,
\* rate_limit_exceeded, blocked, blocked does not end in the terminal failure.
C27_TerminalBlockedNeedsThreeInARow ==
    (flow = "image" /\ pc = "returned" /\ returned = <<TerminalBlocked>>) =>
        /\ Len(hist) >= 3
        /\ \A k \in (Len(hist) - 2)..Len(hist) : hist[k] = "blocked"

\* C28: every progress item of generate_stream reports a stage-advancing update: its stage
\* is strictly higher than the stage of the previous progress item for the same id in the
\* attempt, or it is the first for that id.  The previous item's stage is the stage of the
\* unit the attempt has stored, every store being reported, and items are yielded in the
\* order they are put.
C28_ProgressItemsAdvance ==
    [][(Len(enqueued') > Len(enqueued) /\ enqueued'[Len(enqueued')].type = "progress") =>
          LET it == enqueued'[Len(enqueued')]
              k == IndexOf(progress_images, it.image_id)
          IN k # 0 => StageRank(it.stage) > StageRank(progress_images[k].stage)]_vars

\* C29: the hand-off queue between the task and the consumer is bounded: its length never
\* exceeds a fixed capacity, and a producer facing a full queue waits instead of putting,
\* however slowly the consumer pulls.  Stated with the largest capacity that differs from
\* none here: one below the number of items the task has to put.
C29_HandOffQueueBounded ==
    (task # "idle") =>
        /\ maxsize > 0 => Len(queue) <= maxsize
        /\ Len(queue) <= MaxProgress

\* C30: for a consumer that keeps pulling, once the task has ended, by returning a result
\* or by raising, the consumer's iteration ends too: it is not left polling an empty
\* queue for ever.
C30_ConsumerEndsAfterTask ==
    (task \in {"finished", "raised"}) ~> (consumer \in {"ended", "closed"})

\* the place of the first terminator line in a stream, 0 when it has none
FirstDone(log) ==
    IF \E i \in DOMAIN log : log[i].kind = "done"
    THEN CHOOSE i \in DOMAIN log : log[i].kind = "done" /\ \A j \in 1..(i - 1) : log[j].kind # "done"
    ELSE 0

\* C31: in both implementations the consumption of the chat stream stops at the terminator
\* line: no line after it is read, and an attempt whose stream has its only qualifying
\* record after the terminator ends with the video_not_supported failure.
C31_StopsAtTerminator ==
    (pc_video \in {"stream", "once_returned", "done"} /\ FirstDone(stream_log) # 0) =>
        /\ FirstDone(stream_log) = Len(stream_log)
        /\ (/\ EndedByStream
            /\ QualifyingAt(stream_log) # {}
            /\ \A i \in QualifyingAt(stream_log) : i > FirstDone(stream_log))
           => result_video[1].error_code = "video_not_supported"

\* the profile that has just returned failed with a 403 of one of its two requests
FailedWith403 ==
    /\ ~ result_video[1].success
    /\ post_status = 403 \/ (post_status = 200 /\ chat_status = 403)

\* C32: the curl driver tries the profiles in the order chrome136, chrome133a, chrome131 and
\* goes to the next one only when the one before failed with a 403; on success and on every
\* other failure it returns that result without trying another profile, and when the last
\* profile has failed it returns that profile's failure.
C32_NextProfileOnlyAfter403 ==
    [][pc_video = "once_returned" =>
          IF FailedWith403 /\ profile < Len(Impersonates)
          THEN pc_video' = "post" /\ impl' = "curl" /\ profile' = profile + 1
          ELSE pc_video' = "done" /\ profile' = profile /\ result_video' = result_video]_vars

\* C33: the aiohttp implementation runs only when curl_cffi is not there or its flow raised;
\* a result returned by the curl flow is what the attempt returns, the aiohttp flow makes no
\* request then, and in that case the attempt has created the media post at most once.
C33_NoFallbackAfterResult ==
    [][/\ (impl = "curl" /\ impl' = "aiohttp") => pc_video = "curl_raised"
       /\ pc_video = "once_returned" => (impl' = "curl" /\ result_video' = result_video)
       /\ (impl' = "curl" /\ pc_video' = "done") => jobs_created' <= 1]_vars

\* what a return of the driver shows to its caller: the success flag, the error_code and the
\* url of the video
Outcome(r) == <<r.success, r.error_code, IF r.success THEN r.urls[1] ELSE "">>

\* lines 460-587: the outcome of the curl flow with one profile for the answers of the two
\* requests and the lines of the chat stream; chat is 0 when the media post gave no post id
CurlOutcome(chat, log) ==
    IF chat = 0 THEN <<FALSE, "video_post_failed", "">>
    ELSE IF chat = 429 THEN <<FALSE, "rate_limit_exceeded", "">>
    ELSE IF chat = 401 THEN <<FALSE, "unauthorized", "">>
    ELSE IF chat # 200 THEN <<FALSE, "", "">>
    ELSE IF QualifyingAt(log) = {} THEN <<FALSE, "video_not_supported", "">>
    ELSE <<TRUE, NoCode, log[CHOOSE i \in QualifyingAt(log) :
                               \A j \in QualifyingAt(log) : i <= j].videoUrl>>

\* C34: the two implementations are interchangeable: for the same statuses of the two
\* requests, the same lines of the chat stream (the last of them with or without a newline)
\* and the same resolution, the aiohttp flow returns the success flag, the error_code and
\* the video url (as it came or upscaled) that the curl flow with one profile returns.
C34_ImplementationsInterchangeable ==
    (/\ pc_video = "done" /\ impl = "aiohttp"
     /\ result_video[1].error # "Koneksi gagal") =>
        Outcome(result_video[1]) = CurlOutcome(chat_status, stream_log)

\* C35: an image attempt keeps both timeouts: no inbound event is received or handled once
\* GENERATION_TIMEOUT has passed since the attempt's start, the attempt ends within one read
\* timeout (5 s) of that deadline, and the driver never connects a second time.
C35_DeadlineRespected ==
    [][/\ (pc_gen = "loop" /\ frames' = frames + 1 /\ TextStep)
            => now' - start_time <= GENERATION_TIMEOUT
       /\ (pc_gen = "loop" /\ pc_gen' # "loop")
            => now' - start_time <= GENERATION_TIMEOUT + RECEIVE_TIMEOUT
       /\ pc_gen' = "connect" => pc_gen = "connect"]_vars

\* C37: an image attempt returns the blocked failure only when no tracked unit is final and
\* a medium-stage event was received in it, and an attempt in which a unit has reached
\* final never returns blocked afterwards, whichever of the three places gives the result:
\* from then on some unit stays final and no step returns blocked.
C37_BlockedOnlyWithoutFinal ==
    /\ [](result_gen = <<BlockedResult>>
            => (CountFinal(progress_images) = 0 /\ medium_received_time # None_time))
    /\ [][CountFinal(progress_images) > 0
            => (CountFinal(progress_images') > 0 /\ result_gen' # <<BlockedResult>>)]_vars

\* an attempt ended as blocked by the classification at its exit: neither stall window had
\* run out since the first medium event
C37_Witness ==
    /\ pc_gen = "done" /\ result_gen = <<BlockedResult>>
    /\ medium_received_time # None_time /\ CountFinal(progress_images) = 0
    /\ now - medium_received_time <= BLOCKED_AFTER_TIMEOUT

\* the final units among the tracked ones
FinalUnits(images) == {i \in DOMAIN images : images[i].is_final}

\* C38: in an image attempt with n >= 1 the completed count is the number of tracked units
\* that are final after every event handled, it never decreases and never exceeds n, and
\* the completed value a progress callback is given is that count at the time of the call:
\* the units change only where the callback is called, so the value the last callback was
\* given is the count of the units tracked now.
C38_CompletedCount ==
    /\ [](n >= 1 => /\ progress_completed = Cardinality(FinalUnits(progress_images))
                    /\ progress_completed <= n
                    /\ callback_completed
                         = IF progress_images = <<>> THEN <<>>
                           ELSE <<Cardinality(FinalUnits(progress_images))>>)
    /\ [][n >= 1 => progress_completed' >= progress_completed]_vars

\* the attempt has reached its target of two: the second callback was given 2
C38_Witness ==
    /\ n = 2 /\ progress_completed = 2 /\ callback_completed = <<2>>
    /\ Cardinality(FinalUnits(progress_images)) = 2 /\ pc_gen = "done"

\* C39: in a call without a pinned credential, when the pool gives no credential at the
\* start of an attempt, the call returns at once the failure "no credential available",
\* which has no error_code: the age flag is not read, no attempt is made, nothing is marked
\* or recorded, and a failure recorded by an earlier attempt is not what is returned.
C39_NoCredentialReturnsAtOnce ==
    [][(/\ flow # "idle" /\ pc = "loop" /\ sso = None /\ attempt < max_retries
        /\ current_sso' = None)
         => /\ pc' = "returned" /\ attempt' = attempt /\ hist' = hist
            /\ pool_log' = <<Call("get_next_sso", None)>>
            /\ returned'[1].success = FALSE
            /\ returned'[1].error_code = NoCode
            /\ returned'[1].error = "Tidak ada SSO yang tersedia"
            /\ last_error' = last_error]_vars

\* the pool ran dry at the second attempt, after a rate-limited first one
C39_Witness ==
    /\ flow # "idle" /\ sso = None /\ pc = "returned" /\ current_sso = None
    /\ attempt = 1 /\ hist = <<"rate_limit_exceeded">> /\ acquired = 2
    /\ last_error # <<>> /\ last_error[1].error_code = "rate_limit_exceeded"
    /\ returned[1].error = "Tidak ada SSO yang tersedia"
    /\ pool_log = <<Call("get_next_sso", None)>>

\* the scheme is the word bearer in any mix of upper and lower case
IsBearerAnyCase(sc) ==
    /\ Len(sc) = 6
    /\ sc[1] \in {"b", "B"} /\ sc[2] \in {"e", "E"} /\ sc[3] \in {"a", "A"}
    /\ sc[4] \in {"r", "R"} /\ sc[5] \in {"e", "E"} /\ sc[6] \in {"r", "R"}

\* C40: require_api_key returns True exactly when no API key is configured, or the
\* credentials are there with the scheme bearer, in any case, and a token equal to the
\* configured key character by character; in every other case it raises 401 and does not
\* return True.
C40_ApiKeyRequired ==
    key_ret # <<>> =>
        LET authorised ==
                \/ api_key \in {None, ""}
                \/ /\ credentials # <<>>
                   /\ IsBearerAnyCase(credentials[1].scheme)
                   /\ credentials[1].credentials = api_key
        IN /\ (key_ret[1].raised = FALSE) <=> authorised
           /\ (~ authorised) => (key_ret[1].raised = TRUE /\ key_ret[1].status_code = 401)

\* the key k1 is configured and the header is "BEARER k1": accepted
C40_Witness ==
    /\ api_key = "k1" /\ credentials # <<>>
    /\ credentials[1].scheme = <<"B", "E", "A", "R", "E", "R">>
    /\ credentials[1].credentials = "k1"
    /\ key_ret = <<[raised |-> FALSE, status_code |-> 0, detail |-> ""]>>

\* the frame of attempt a as its own locals and its own position give it
OwnFrame(a) == Merge(att_state[a], att_ctl[a])

\* the frame that handling the events of h, one after the other, makes of F
RECURSIVE ReplayFrom(_, _)
ReplayFrom(F, h) == IF h = <<>> THEN F ELSE ReplayFrom(Step(F, Head(h)), Tail(h))

\* C36: generation state is never shared between attempts: an attempt starts with no unit,
\* no recorded error and no first-medium time, and at every moment its units, its error,
\* its stall timing, its position and its result are what its own events alone make of
\* that start, whatever another attempt on the same client object has handled meanwhile.
C36_AttemptsShareNothing ==
    \A a \in Attempts :
        att_ctl[a].pc # "idle" =>
            /\ att_ctl[a].handled = <<>> =>
                 /\ att_state[a].images = <<>> /\ att_state[a].error_info = <<>>
                 /\ att_state[a].medium_received_time = -1
            /\ OwnFrame(a)
                 = ReplayFrom(NewFrame(att_ctl[a].n, att_ctl[a].started_at), att_ctl[a].handled)

\* attempt 1 got a medium unit at 0 and has just been classified blocked by its read
\* timeout at 15; attempt 2, started while attempt 1 waited, has got an error event and
\* goes on with no unit and no first-medium time
C36_Witness ==
    /\ clock = 15
    /\ att_ctl[1].pc = "done" /\ att_ctl[1].result = <<BlockedResult>>
    /\ att_ctl[1].started_at = 0 /\ att_state[1].medium_received_time = 0
    /\ Len(att_state[1].images) = 1
    /\ att_ctl[2].pc = "loop" /\ att_ctl[2].started_at = 5
    /\ att_state[2].images = <<>> /\ att_state[2].medium_received_time = None_time
    /\ att_state[2].error_info # <<>>

====
